---------------------------- MODULE Spec2Model ----------------------------
(***************************************************************************)
(* Clock system controllers of the stm32f10x and msp432p401r families,     *)
(* SerialUart::ReadUntil and Zs040::Parse.  A behaviour is about one of    *)
(* them (`family`); the variables of the others are unused in it.          *)
(*                                                                         *)
(* Registers are 32-bit naturals and every register update goes through    *)
(* the bit helpers below, so a field that is too narrow for the value      *)
(* inserted into it really truncates.  Frequencies are whole hertz.        *)
(* Initialize is modelled step by step (one action per numbered step of    *)
(* the source); a busy-wait poll is an action that is enabled only once    *)
(* the polled flag reads as set.  The hardware raises ready flags          *)
(* asynchronously through its own actions.  `log` records every register   *)
(* write of Initialize and of the clock setters, and every poll read that  *)
(* ended a busy-wait, in program order.                                    *)
(***************************************************************************)
EXTENDS Integers, Sequences, FiniteSets, TLC

VARIABLES
  family,                \* which controller this behaviour is about
  pc,                    \* position of the control flow inside the controller
  log,                   \* register accesses so far, in program order
  result,                \* value handed back by the last query, or NoResult
  previous_rates,        \* what GetClockRate gave the caller before it ran
                         \* Initialize again, or NoRates
  \* ---- stm32f10x::SystemController
  config_,               \* ClockConfiguration & config_
  clock_control,         \* RCC registers CFGR, CR, BDCR, AHBENR, APB1ENR, APB2ENR
  flash,                 \* FLASH register ACR
  system_clock,          \* local of Initialize
  rtc_clock_rate_, usb_clock_rate_, pll_clock_rate_, ahb_clock_rate_,
  apb1_clock_rate_, apb2_clock_rate_, timer_apb1_clock_rate_,
  timer_apb2_clock_rate_, adc_clock_rate_,
  \* ---- msp432p401r::SystemController
  clock_configuration_,  \* ClockConfiguration_t & clock_configuration_
  clock_system,          \* CS registers KEY, CTL0, CTL1, CLKEN, STAT
  clock_rates_,          \* std::array<hertz_t, kClockPeripheralCount>
  dco, refo,             \* locals of Initialize
  kPlatformHost,         \* build::kPlatform == build::Platform::host
  \* ---- SerialUart::ReadUntil
  uart_port_,            \* the line: its byte stream, how much of it the UART
                         \* has received and how much has been Read()
  until,                 \* ReadUntil_t until
  throw_on_failure,      \* argument of ReadUntil
  wait,                  \* Wait(timeout, ...): whether the timeout has elapsed
                         \* and what the last call of the callback did
  \* ---- Zs040::Parse
  parse,                 \* arguments buffer, command, cr_lf, check_for_ok
  \* ---- control flows inside PowerUpPeripheral / PowerDownPeripheral
  gating                 \* per control flow: its call and the enable register
                         \* value it has read

stmRates == <<rtc_clock_rate_, usb_clock_rate_, pll_clock_rate_,
              ahb_clock_rate_, apb1_clock_rate_, apb2_clock_rate_,
              timer_apb1_clock_rate_, timer_apb2_clock_rate_, adc_clock_rate_>>

stmVars == <<config_, clock_control, flash, system_clock, stmRates>>

mspVars == <<clock_configuration_, clock_system, clock_rates_, dco, refo,
             kPlatformHost>>

driverVars == <<uart_port_, until, throw_on_failure, wait, parse, gating>>

vars == <<family, pc, log, result, previous_rates, stmVars, mspVars, driverVars>>

-----------------------------------------------------------------------------
(* Bounds of the model.                                                    *)

\* A configuration explored differs from a base configuration in at most
\* this many fields.
MaxDeviations == 2

\* The same for the configurations Initialize is run twice with.
MaxRerunDeviations == 1

\* ... and, where Initialize is run to its end against the clock system of
\* the msp432p401r, in at most MaxSourceDeviations of the fields that decide
\* whether it is let through and whether it has to wait.
MaxSourceDeviations == 1

\* The fields of the configuration a caller changes between two runs of
\* Initialize.
MaxReconfiguredFields == 1

\* Calls of the public msp432p401r SetClockDivider after Initialize.
MaxDividerCalls == 1

\* ReadUntil is given end sequences of up to MaxEndLength bytes, lines that
\* carry up to MaxStreamLength bytes and buffers of up to MaxBufferSize
\* bytes.
MaxEndLength == 3

MaxStreamLength == 4

MaxBufferSize == 2

\* Parse is given commands of up to MaxCommandLength characters and values
\* of up to MaxValueLength characters.
MaxCommandLength == 2

MaxValueLength == 2

\* The DCO is asked for target frequencies up to MaxTargetOffset kHz to
\* either side of every limit of its frequency ranges.
MaxTargetOffset == 1

\* Peripheral identities 0 .. MaxDeviceId are passed to the queries.
MaxDeviceId == 100

-----------------------------------------------------------------------------
(* utility/bit.hpp and the units literals.                                 *)

MHz(n) == n * 1000000

kHz(n) == n * 1000

CreateMaskFromRange(low, high) == [position |-> low, width |-> (high - low) + 1]

\* target >> n.  No register of the model has bit 31 set, so a shift by 31
\* gives 0.
ShiftRight(target, n) == IF n <= 30 THEN target \div (2 ^ n) ELSE 0

Extract(target, mask) == ShiftRight(target, mask.position) % (2 ^ mask.width)

\* The value is cut to the width of the field before it is shifted in.
Insert(target, value, mask) ==
  (target - Extract(target, mask) * (2 ^ mask.position))
    + (value % (2 ^ mask.width)) * (2 ^ mask.position)

\* Set, Clear and Read act on the single bit at mask.position.
Set(target, mask) ==
  Insert(target, 1, CreateMaskFromRange(mask.position, mask.position))

Clear(target, mask) ==
  Insert(target, 0, CreateMaskFromRange(mask.position, mask.position))

Read(target, mask) == ShiftRight(target, mask.position) % 2 = 1

BoolValue(b) == IF b THEN 1 ELSE 0

Write(reg, val) == [op |-> "write", reg |-> reg, val |-> val]

PollRead(reg, val) == [op |-> "read", reg |-> reg, val |-> val]

\* `index` holds the entries of a register table a query dereferenced.
NoIndex == {}

NoResult == [op |-> "none", id |-> 0, value |-> 0, index |-> NoIndex]

NoRates == <<>>

\* The drivers take no part in a behaviour of a system controller.
DriversUnused ==
  /\ uart_port_ = <<>>
  /\ until = <<>>
  /\ throw_on_failure = FALSE
  /\ wait = <<>>
  /\ parse = <<>>
  /\ gating = <<>>

\* SJ2_ASSERT_FATAL with a false condition: the system halts at this point.
Halted == "fatal"

-----------------------------------------------------------------------------
(* stm32f10x: identities, enumerations and register fields.                *)

kBits == 32

kAHB == kBits * 0

kAPB1 == kBits * 1

kAPB2 == kBits * 2

kBeyond == kBits * 3

kDma1 == kAHB + 0
kFlitf == kAHB + 4
kTimer2 == kAPB1 + 0
kUsb == kAPB1 + 23
kAdc1 == kAPB2 + 9
kAdc2 == kAPB2 + 10
kAdc3 == kAPB2 + 15
kTimer1 == kAPB2 + 11
kGpioA == kAPB2 + 2
kCpu == kBeyond + 0
kSystemTimer == kBeyond + 1
kI2s == kBeyond + 2

\* kTimer2 .. kTimer7, kTimer12 .. kTimer14
Apb1Timers == {kAPB1 + n : n \in 0 .. 8}

\* kTimer1, kTimer8, kTimer9 .. kTimer11
Apb2Timers == {kAPB2 + 11, kAPB2 + 13, kAPB2 + 19, kAPB2 + 20, kAPB2 + 21}

Adcs == {kAdc1, kAdc2, kAdc3}

\* Every identity the Peripherals class defines.
Peripherals ==
  {kAHB + n : n \in {0, 1, 2, 4, 6, 8, 10}}
    \cup {kAPB1 + n : n \in (0 .. 8) \cup {11, 14, 15} \cup (17 .. 23)
                              \cup {25, 27, 28, 29}}
    \cup {kAPB2 + n : n \in {0} \cup (2 .. 15) \cup {19, 20, 21}}
    \cup {kCpu, kSystemTimer, kI2s}

APBDivider == {0, 4, 5, 6, 7}

AHBDivider == {0, 8, 9, 10, 11, 12, 13, 14, 15}

AdcDivider == {0, 1, 2, 3}

kSelectHighSpeedInternal == 0
kSelectHighSpeedExternal == 1
kSelectPll == 2

SystemClockSelect == {kSelectHighSpeedInternal, kSelectHighSpeedExternal, kSelectPll}

PllMultiply == 0 .. 14

kRtcNoClock == 0
kRtcLowSpeedInternal == 1
kRtcLowSpeedExternal == 2
kRtcHighSpeedExternalDividedBy128 == 3

RtcSource == {kRtcNoClock, kRtcLowSpeedInternal, kRtcLowSpeedExternal,
              kRtcHighSpeedExternalDividedBy128}

kPllHighSpeedInternal == 0
kPllHighSpeedExternal == 1
kPllHighSpeedExternalDividedBy2 == 3

PllSource == {kPllHighSpeedInternal, kPllHighSpeedExternal,
              kPllHighSpeedExternalDividedBy2}

kUsbDivideBy1 == 1
kUsbDivideBy1Point5 == 0

UsbDivider == {kUsbDivideBy1, kUsbDivideBy1Point5}

\* ClockConfigurationRegisters (CFGR)
ClockConfigurationRegisters ==
  [kUsbPrescalar |-> CreateMaskFromRange(22, 22),
   kPllMul |-> CreateMaskFromRange(18, 21),
   kHsePreDivider |-> CreateMaskFromRange(17, 17),
   kPllSource |-> CreateMaskFromRange(16, 16),
   kAdcDivider |-> CreateMaskFromRange(14, 15),
   kAPB2Divider |-> CreateMaskFromRange(11, 13),
   kAPB1Divider |-> CreateMaskFromRange(8, 10),
   kAHBDivider |-> CreateMaskFromRange(4, 7),
   kSystemClockStatus |-> CreateMaskFromRange(2, 3),
   kSystemClockSelect |-> CreateMaskFromRange(0, 1)]

\* ClockControlRegisters (CR)
ClockControlRegisters ==
  [kPllReady |-> CreateMaskFromRange(25, 25),
   kPllEnable |-> CreateMaskFromRange(24, 24),
   kExternalOscReady |-> CreateMaskFromRange(17, 17),
   kExternalOscEnable |-> CreateMaskFromRange(16, 16)]

\* RtcRegisters (BDCR)
RtcRegisters ==
  [kBackupDomainReset |-> CreateMaskFromRange(16, 16),
   kRtcEnable |-> CreateMaskFromRange(15, 15),
   kRtcSourceSelect |-> CreateMaskFromRange(8, 9),
   kLowSpeedOscReady |-> CreateMaskFromRange(1, 1),
   kLowSpeedOscEnable |-> CreateMaskFromRange(0, 0)]

\* Flash ACR latency field
kFlashLatency == CreateMaskFromRange(0, 2)

kLowSpeedInternal == kHz(20)

kHighSpeedInternalDoubled == MHz(16)

kHighSpeedInternal == MHz(8)

\* A default-constructed stm32f10x ClockConfiguration.
ClockConfiguration ==
  [high_speed_external |-> 0,
   low_speed_external  |-> 0,
   pll_enable          |-> FALSE,
   pll_source          |-> kPllHighSpeedInternal,
   pll_multiply        |-> 0,
   pll_usb_divider     |-> kUsbDivideBy1Point5,
   system_clock        |-> kSelectHighSpeedInternal,
   rtc_enable          |-> FALSE,
   rtc_source          |-> kRtcLowSpeedInternal,
   ahb_divider         |-> 0,
   apb1_divider        |-> 0,
   apb2_divider        |-> 0,
   adc_divider         |-> 0]

\* Scenario 2 of the specification: HSE 8 MHz, PLL from HSE times 9 as system
\* clock, every bus divider 1.
Pll72MHz ==
  [ClockConfiguration EXCEPT !.high_speed_external = MHz(8),
                             !.pll_enable = TRUE,
                             !.pll_source = kPllHighSpeedExternal,
                             !.pll_multiply = 7,
                             !.system_clock = kSelectPll]

\* A board with both crystals: HSE 8 MHz as system clock, the RTC on LSE.
ExternalCrystals ==
  [ClockConfiguration EXCEPT !.high_speed_external = MHz(8),
                             !.low_speed_external = 32768,
                             !.system_clock = kSelectHighSpeedExternal,
                             !.rtc_enable = TRUE,
                             !.rtc_source = kRtcLowSpeedExternal]

\* The values a caller can give each field.
StmFieldValues(f) ==
  CASE f = "high_speed_external" -> {0, MHz(8), MHz(12), MHz(25)}
    [] f = "low_speed_external"  -> {0, 32768}
    [] f = "pll_enable"          -> BOOLEAN
    [] f = "pll_source"          -> PllSource
    [] f = "pll_multiply"        -> PllMultiply
    [] f = "pll_usb_divider"     -> UsbDivider
    [] f = "system_clock"        -> SystemClockSelect
    [] f = "rtc_enable"          -> BOOLEAN
    [] f = "rtc_source"          -> RtcSource
    [] f = "ahb_divider"         -> AHBDivider
    [] f = "apb1_divider"        -> APBDivider
    [] f = "apb2_divider"        -> APBDivider
    [] f = "adc_divider"         -> AdcDivider

\* The scenarios that differ from `c` in exactly the fields `changed`.
RECURSIVE Deviations(_, _, _)
Deviations(c, changed, values) ==
  IF changed = {} THEN {c}
  ELSE LET f == CHOOSE g \in changed : TRUE
       IN  UNION {Deviations([c EXCEPT ![f] = v], changed \ {f}, values)
                    : v \in values[f] \ {c[f]}}

\* The sets of at most n fields.
FieldChoices(fields, n) == {s \in SUBSET fields : Cardinality(s) <= n}

\* Register contents Initialize can find: the reset state, and a system that
\* is already running from the PLL fed by HSE with every field in use.
StmRegisterFile(registers) ==
  CASE registers = "reset" ->
         [rcc |-> [CFGR |-> 0, CR |-> 0, BDCR |-> 0,
                   AHBENR |-> 20,      \* 0x00000014: SRAM and FLITF clocked
                   APB1ENR |-> 0, APB2ENR |-> 0],
          flash |-> [ACR |-> 0]]
    [] registers = "running" ->
         [rcc |-> [CFGR |-> 8372202,   \* 0x007FBFEA: SW = SWS = PLL
                   CR |-> 50528256,    \* 0x03030000: HSE and PLL on and ready
                   BDCR |-> 33539,     \* 0x00008303: LSE on and ready, RTC on
                   AHBENR |-> 21,      \* DMA1, SRAM and FLITF clocked
                   APB1ENR |-> 268566528,   \* 0x10020000: USART2 and PWR
                   APB2ENR |-> 16389], \* 0x00004005: AFIO, GPIOA and USART1
          flash |-> [ACR |-> 7]]

\* A scenario is a configuration together with the register contents that
\* Initialize finds.
StmScenarioValues(f) ==
  IF f = "registers" THEN {"reset", "running"} ELSE StmFieldValues(f)

StmBaseScenarios ==
  {c @@ [registers |-> "reset"] : c \in {ClockConfiguration, Pll72MHz, ExternalCrystals}}

\* The explored scenarios differ from a base scenario in at most
\* MaxDeviations fields.
StmScenarios(base, changed) ==
  LET fields == DOMAIN ClockConfiguration \cup {"registers"}
  IN  Deviations(base, changed, [f \in fields |-> StmScenarioValues(f)])

-----------------------------------------------------------------------------
(* stm32f10x: what the RCC hardware does with a register write.  Ready and *)
(* status fields are read-only; a source that is switched off is no longer *)
(* ready; a backup domain reset clears the backup domain register.  The    *)
(* status field never reports a source that is not running.                *)

HwCR(old, val) ==
  LET hse == Read(val, ClockControlRegisters.kExternalOscEnable) /\ Read(old, ClockControlRegisters.kExternalOscReady)
      pll == Read(val, ClockControlRegisters.kPllEnable) /\ Read(old, ClockControlRegisters.kPllReady)
  IN  Insert(Insert(val, BoolValue(hse), ClockControlRegisters.kExternalOscReady),
             BoolValue(pll), ClockControlRegisters.kPllReady)

\* The internal oscillator always runs, so a switch to it is complete before
\* the next bus access; a switch to another source completes once that
\* source runs (HwSystemClockSwitch).
HwCFGR(old, val) ==
  IF Extract(val, ClockConfigurationRegisters.kSystemClockSelect) = kSelectHighSpeedInternal
  THEN Insert(val, kSelectHighSpeedInternal, ClockConfigurationRegisters.kSystemClockStatus)
  ELSE Insert(val, Extract(old, ClockConfigurationRegisters.kSystemClockStatus), ClockConfigurationRegisters.kSystemClockStatus)

HwBDCR(old, val) ==
  IF Read(val, RtcRegisters.kBackupDomainReset)
  THEN Set(0, RtcRegisters.kBackupDomainReset)
  ELSE Insert(val,
              BoolValue(Read(val, RtcRegisters.kLowSpeedOscEnable) /\ Read(old, RtcRegisters.kLowSpeedOscReady)),
              RtcRegisters.kLowSpeedOscReady)

\* The source selected by the SW field is running.
SourceRunning(select) ==
  CASE select = kSelectHighSpeedInternal -> TRUE
    [] select = kSelectHighSpeedExternal -> Read(clock_control.CR, ClockControlRegisters.kExternalOscReady)
    [] select = kSelectPll               -> Read(clock_control.CR, ClockControlRegisters.kPllReady)
    [] OTHER                             -> FALSE

HwExternalOscReady ==
  /\ family = "stm32f10x"
  /\ Read(clock_control.CR, ClockControlRegisters.kExternalOscEnable)
  /\ ~Read(clock_control.CR, ClockControlRegisters.kExternalOscReady)
  /\ clock_control' = [clock_control EXCEPT !.CR = Set(@, ClockControlRegisters.kExternalOscReady)]
  /\ UNCHANGED <<family, previous_rates, driverVars, pc, log, result, config_, flash, system_clock,
                 stmRates, mspVars>>

HwLowSpeedOscReady ==
  /\ family = "stm32f10x"
  /\ Read(clock_control.BDCR, RtcRegisters.kLowSpeedOscEnable)
  /\ ~Read(clock_control.BDCR, RtcRegisters.kLowSpeedOscReady)
  /\ clock_control' = [clock_control EXCEPT !.BDCR = Set(@, RtcRegisters.kLowSpeedOscReady)]
  /\ UNCHANGED <<family, previous_rates, driverVars, pc, log, result, config_, flash, system_clock,
                 stmRates, mspVars>>

HwPllReady ==
  /\ family = "stm32f10x"
  /\ Read(clock_control.CR, ClockControlRegisters.kPllEnable)
  /\ ~Read(clock_control.CR, ClockControlRegisters.kPllReady)
  /\ clock_control' = [clock_control EXCEPT !.CR = Set(@, ClockControlRegisters.kPllReady)]
  /\ UNCHANGED <<family, previous_rates, driverVars, pc, log, result, config_, flash, system_clock,
                 stmRates, mspVars>>

\* The status field follows the select field once the selected source runs.
HwSystemClockSwitch ==
  /\ family = "stm32f10x"
  /\ LET select == Extract(clock_control.CFGR, ClockConfigurationRegisters.kSystemClockSelect)
     IN  /\ Extract(clock_control.CFGR, ClockConfigurationRegisters.kSystemClockStatus) # select
         /\ SourceRunning(select)
         /\ clock_control' =
              [clock_control EXCEPT !.CFGR = Insert(@, select, ClockConfigurationRegisters.kSystemClockStatus)]
  /\ UNCHANGED <<family, previous_rates, driverVars, pc, log, result, config_, flash, system_clock,
                 stmRates, mspVars>>

-----------------------------------------------------------------------------
(* stm32f10x::SystemController::Initialize                                 *)

StmStep(from, to) ==
  /\ family = "stm32f10x"
  /\ pc = from
  /\ pc' = to
  /\ UNCHANGED <<family, previous_rates, driverVars, result, config_, mspVars>>

\* Step 1. Select the internal clock source and reset the RTC registers.
Initialize_Step1 ==
  LET cfgr  == Insert(clock_control.CFGR, kSelectHighSpeedInternal,
                      ClockConfigurationRegisters.kSystemClockSelect)
      bdcr1 == Set(clock_control.BDCR, RtcRegisters.kBackupDomainReset)
      bdcr2 == Clear(HwBDCR(clock_control.BDCR, bdcr1), RtcRegisters.kBackupDomainReset)
  IN  /\ result = NoResult     \* the caller is not inside another call
      /\ StmStep("idle", "step2")
      /\ system_clock' = 0
      /\ clock_control' =
           [clock_control EXCEPT
              !.CFGR = HwCFGR(@, cfgr),
              !.BDCR = HwBDCR(HwBDCR(@, bdcr1), bdcr2)]
      /\ log' = log \o <<Write("CFGR", cfgr), Write("BDCR", bdcr1),
                         Write("BDCR", bdcr2)>>
      /\ UNCHANGED <<flash, stmRates>>

\* Step 2. Disable the PLL and the external oscillator.
Initialize_Step2 ==
  LET cr1 == Clear(clock_control.CR, ClockControlRegisters.kPllEnable)
      cr2 == Clear(HwCR(clock_control.CR, cr1), ClockControlRegisters.kExternalOscEnable)
  IN  /\ StmStep("step2", "step3_1")
      /\ clock_control' =
           [clock_control EXCEPT !.CR = HwCR(HwCR(@, cr1), cr2)]
      /\ log' = log \o <<Write("CR", cr1), Write("CR", cr2)>>
      /\ UNCHANGED <<flash, system_clock, stmRates>>

\* Step 3.1 Enable the high speed external oscillator, if one is configured.
Initialize_Step3_1 ==
  /\ family = "stm32f10x"
  /\ pc = "step3_1"
  /\ IF config_.high_speed_external # 0
     THEN LET cr == Set(clock_control.CR, ClockControlRegisters.kExternalOscEnable)
          IN  /\ StmStep("step3_1", "step3_1_wait")
              /\ clock_control' = [clock_control EXCEPT !.CR = HwCR(@, cr)]
              /\ log' = log \o <<Write("CR", cr)>>
              /\ UNCHANGED <<flash, system_clock, stmRates>>
     ELSE /\ StmStep("step3_1", "step3_2")
          /\ UNCHANGED <<clock_control, log, flash, system_clock, stmRates>>

\* The poll of the HSE ready flag left after a single read, whatever it
\* shows.
Initialize_Step3_1_NoWait ==
  /\ StmStep("step3_1_wait", "step3_2")
  /\ log' = log \o <<PollRead("CR", clock_control.CR)>>
  /\ UNCHANGED <<clock_control, flash, system_clock, stmRates>>

\* while (!bit::Read(CR, ClockControlRegisters.kExternalOscReady)) continue;
Initialize_Step3_1_Wait ==
  /\ StmStep("step3_1_wait", "step3_2")
  /\ Read(clock_control.CR, ClockControlRegisters.kExternalOscReady)
  /\ log' = log \o <<PollRead("CR", clock_control.CR)>>
  /\ UNCHANGED <<clock_control, flash, system_clock, stmRates>>

\* Step 3.2 Enable the low speed external oscillator, if one is configured.
Initialize_Step3_2 ==
  /\ family = "stm32f10x"
  /\ pc = "step3_2"
  /\ IF config_.low_speed_external # 0
     THEN LET bdcr == Insert(clock_control.BDCR, 1, RtcRegisters.kLowSpeedOscEnable)
          IN  /\ StmStep("step3_2", "step3_2_wait")
              /\ clock_control' = [clock_control EXCEPT !.BDCR = HwBDCR(@, bdcr)]
              /\ log' = log \o <<Write("BDCR", bdcr)>>
              /\ UNCHANGED <<flash, system_clock, stmRates>>
     ELSE /\ StmStep("step3_2", "step4")
          /\ UNCHANGED <<clock_control, log, flash, system_clock, stmRates>>

\* while (!bit::Read(BDCR, RtcRegisters.kLowSpeedOscReady)) continue;
Initialize_Step3_2_Wait ==
  /\ StmStep("step3_2_wait", "step4")
  /\ Read(clock_control.BDCR, RtcRegisters.kLowSpeedOscReady)
  /\ log' = log \o <<PollRead("BDCR", clock_control.BDCR)>>
  /\ UNCHANGED <<clock_control, flash, system_clock, stmRates>>

\* Step 4. Set the oscillator source of the PLL.
Initialize_Step4 ==
  LET cfgr1 == IF config_.pll_source = kPllHighSpeedExternalDividedBy2
               THEN Set(clock_control.CFGR, ClockConfigurationRegisters.kHsePreDivider)
               ELSE Clear(clock_control.CFGR, ClockConfigurationRegisters.kHsePreDivider)
      cfgr2 == Insert(HwCFGR(clock_control.CFGR, cfgr1), config_.pll_source,
                      ClockConfigurationRegisters.kPllSource)
  IN  /\ StmStep("step4", "step5")
      /\ clock_control' =
           [clock_control EXCEPT !.CFGR = HwCFGR(HwCFGR(@, cfgr1), cfgr2)]
      /\ log' = log \o <<Write("CFGR", cfgr1), Write("CFGR", cfgr2)>>
      /\ UNCHANGED <<flash, system_clock, stmRates>>

\* The PLL rate stored together with the enabling of the PLL, ahead of the
\* poll of its ready flag.
Initialize_Step5_StoringRate ==
  /\ family = "stm32f10x"
  /\ pc = "step5"
  /\ IF config_.pll_enable
     THEN LET cfgr == Insert(clock_control.CFGR, config_.pll_multiply, ClockConfigurationRegisters.kPllMul)
              cr   == Set(clock_control.CR, ClockControlRegisters.kPllEnable)
              input == CASE config_.pll_source = kPllHighSpeedInternal -> kHighSpeedInternal \div 2
                         [] config_.pll_source = kPllHighSpeedExternal -> config_.high_speed_external
                         [] config_.pll_source = kPllHighSpeedExternalDividedBy2 ->
                              config_.high_speed_external \div 2
          IN  /\ StmStep("step5", "step5_wait")
              /\ clock_control' =
                   [clock_control EXCEPT !.CFGR = HwCFGR(@, cfgr),
                                         !.CR = HwCR(@, cr)]
              /\ log' = log \o <<Write("CFGR", cfgr), Write("CR", cr)>>
              /\ pll_clock_rate_' = input * (config_.pll_multiply + 2)
              /\ UNCHANGED <<flash, system_clock, rtc_clock_rate_,
                             usb_clock_rate_, ahb_clock_rate_, apb1_clock_rate_,
                             apb2_clock_rate_, timer_apb1_clock_rate_,
                             timer_apb2_clock_rate_, adc_clock_rate_>>
     ELSE /\ StmStep("step5", "step6")
          /\ UNCHANGED <<clock_control, log, flash, system_clock, stmRates>>

\* Step 5. Program the multiplier and enable the PLL, if it is configured.
Initialize_Step5 ==
  /\ family = "stm32f10x"
  /\ pc = "step5"
  /\ IF config_.pll_enable
     THEN LET cfgr == Insert(clock_control.CFGR, config_.pll_multiply, ClockConfigurationRegisters.kPllMul)
              cr   == Set(clock_control.CR, ClockControlRegisters.kPllEnable)
          IN  /\ StmStep("step5", "step5_wait")
              /\ clock_control' =
                   [clock_control EXCEPT !.CFGR = HwCFGR(@, cfgr),
                                         !.CR = HwCR(@, cr)]
              /\ log' = log \o <<Write("CFGR", cfgr), Write("CR", cr)>>
              /\ UNCHANGED <<flash, system_clock, stmRates>>
     ELSE /\ StmStep("step5", "step6")
          /\ UNCHANGED <<clock_control, log, flash, system_clock, stmRates>>

\* The frequency fed to the PLL: switch (config_.pll.source).
PllInputRate(config) ==
  CASE config.pll_source = kPllHighSpeedInternal -> kHighSpeedInternal \div 2
    [] config.pll_source = kPllHighSpeedExternal -> config.high_speed_external
    [] config.pll_source = kPllHighSpeedExternalDividedBy2 ->
         config.high_speed_external \div 2

\* The stored code taken for the multiplication factor itself.
PllRateNoOffset(config) == PllInputRate(config) * config.pll_multiply

\* The switch on the PLL source dropped: the factor is applied on top of the
\* rate the member already holds.
PllRateCompounded(config) ==
  pll_clock_rate_ + PllInputRate(config) * (config.pll_multiply + 2)

\* pll_clock_rate_ = pll_clock_rate_ * (Value(config_.pll.multiply) + 2)
PllRate(config) == PllInputRate(config) * (config.pll_multiply + 2)

\* while (!bit::Read(CR, ClockControlRegisters.kPllReady)) continue; then the PLL rate is computed.
Initialize_Step5_Wait ==
  /\ StmStep("step5_wait", "step6")
  /\ Read(clock_control.CR, ClockControlRegisters.kPllReady)
  /\ log' = log \o <<PollRead("CR", clock_control.CR)>>
  /\ pll_clock_rate_' = PllRate(config_)
  /\ UNCHANGED <<clock_control, flash, system_clock, rtc_clock_rate_,
                 usb_clock_rate_, ahb_clock_rate_, apb1_clock_rate_,
                 apb2_clock_rate_, timer_apb1_clock_rate_,
                 timer_apb2_clock_rate_, adc_clock_rate_>>

\* The dividers programmed together with the switch of the system clock:
\* the last divider write already carries the configured source.
Initialize_Step6_Switching ==
  LET c1 == Insert(clock_control.CFGR, config_.pll_usb_divider, ClockConfigurationRegisters.kUsbPrescalar)
      c2 == Insert(HwCFGR(clock_control.CFGR, c1), config_.ahb_divider, ClockConfigurationRegisters.kAHBDivider)
      c3 == Insert(HwCFGR(clock_control.CFGR, c2), config_.apb1_divider, ClockConfigurationRegisters.kAPB1Divider)
      c4 == Insert(HwCFGR(clock_control.CFGR, c3), config_.apb2_divider, ClockConfigurationRegisters.kAPB2Divider)
      c5 == Insert(Insert(HwCFGR(clock_control.CFGR, c4), config_.adc_divider, ClockConfigurationRegisters.kAdcDivider),
                   config_.system_clock, ClockConfigurationRegisters.kSystemClockSelect)
  IN  /\ StmStep("step6", "step7_1")
      /\ clock_control' =
           [clock_control EXCEPT !.CFGR = HwCFGR(@, c5)]
      /\ log' = log \o <<Write("CFGR", c1), Write("CFGR", c2), Write("CFGR", c3),
                         Write("CFGR", c4), Write("CFGR", c5)>>
      /\ UNCHANGED <<flash, system_clock, stmRates>>

\* Step 6. Program the USB, AHB, APB1, APB2 and ADC dividers.
Initialize_Step6 ==
  LET c1 == Insert(clock_control.CFGR, config_.pll_usb_divider, ClockConfigurationRegisters.kUsbPrescalar)
      c2 == Insert(HwCFGR(clock_control.CFGR, c1), config_.ahb_divider, ClockConfigurationRegisters.kAHBDivider)
      c3 == Insert(HwCFGR(clock_control.CFGR, c2), config_.apb1_divider, ClockConfigurationRegisters.kAPB1Divider)
      c4 == Insert(HwCFGR(clock_control.CFGR, c3), config_.apb2_divider, ClockConfigurationRegisters.kAPB2Divider)
      c5 == Insert(HwCFGR(clock_control.CFGR, c4), config_.adc_divider, ClockConfigurationRegisters.kAdcDivider)
  IN  /\ StmStep("step6", "step7_1")
      /\ clock_control' =
           [clock_control EXCEPT !.CFGR = HwCFGR(@, c5)]
      /\ log' = log \o <<Write("CFGR", c1), Write("CFGR", c2), Write("CFGR", c3),
                         Write("CFGR", c4), Write("CFGR", c5)>>
      /\ UNCHANGED <<flash, system_clock, stmRates>>

\* The flash wait states the source programs for a PLL rate.
FlashWaitStates(rate) ==
  IF rate <= MHz(24) THEN 0
  ELSE IF MHz(24) <= rate /\ rate <= MHz(48) THEN 1
  ELSE 2

\* Step 7.1 Set the flash wait states before the system clock is switched.
Initialize_Step7_1 ==
  /\ family = "stm32f10x"
  /\ pc = "step7_1"
  /\ IF config_.system_clock = kSelectPll
     THEN LET acr == Insert(flash.ACR, FlashWaitStates(pll_clock_rate_),
                            kFlashLatency)
          IN  /\ StmStep("step7_1", "step7_2")
              /\ flash' = [flash EXCEPT !.ACR = acr]
              /\ log' = log \o <<Write("ACR", acr)>>
              /\ UNCHANGED <<clock_control, system_clock, stmRates>>
     ELSE /\ StmStep("step7_1", "step7_2")
          /\ UNCHANGED <<clock_control, log, flash, system_clock, stmRates>>

\* The system clock source selected without the poll of the status field.
Initialize_Step7_2_NoPoll ==
  LET cfgr == Insert(clock_control.CFGR, config_.system_clock,
                     ClockConfigurationRegisters.kSystemClockSelect)
  IN  /\ StmStep("step7_2", "step7_3")
      /\ clock_control' = [clock_control EXCEPT !.CFGR = HwCFGR(@, cfgr)]
      /\ log' = log \o <<Write("CFGR", cfgr)>>
      /\ system_clock' = (CASE config_.system_clock = kSelectHighSpeedInternal -> kHighSpeedInternal
                            [] config_.system_clock = kSelectHighSpeedExternal -> config_.high_speed_external
                            [] config_.system_clock = kSelectPll -> pll_clock_rate_)
      /\ UNCHANGED <<flash, stmRates>>

\* Step 7.2 Select the system clock source.
Initialize_Step7_2 ==
  LET cfgr == Insert(clock_control.CFGR, config_.system_clock,
                     ClockConfigurationRegisters.kSystemClockSelect)
  IN  /\ StmStep("step7_2", "step7_2_wait")
      /\ clock_control' = [clock_control EXCEPT !.CFGR = HwCFGR(@, cfgr)]
      /\ log' = log \o <<Write("CFGR", cfgr)>>
      /\ UNCHANGED <<flash, system_clock, stmRates>>

\* switch (config_.system_clock) after the status poll.
SystemClockRate(config, pll_rate) ==
  CASE config.system_clock = kSelectHighSpeedInternal -> kHighSpeedInternal
    [] config.system_clock = kSelectHighSpeedExternal -> config.high_speed_external
    [] config.system_clock = kSelectPll               -> pll_rate

\* The status poll left after a single read, whatever it shows.
Initialize_Step7_2_NoWait ==
  /\ StmStep("step7_2_wait", "step7_3")
  /\ log' = log \o <<PollRead("CFGR", clock_control.CFGR)>>
  /\ system_clock' = SystemClockRate(config_, pll_clock_rate_)
  /\ UNCHANGED <<clock_control, flash, stmRates>>

\* while (Extract(CFGR, ClockConfigurationRegisters.kSystemClockStatus) != target_clock_source) continue;
Initialize_Step7_2_Wait ==
  /\ StmStep("step7_2_wait", "step7_3")
  /\ Extract(clock_control.CFGR, ClockConfigurationRegisters.kSystemClockStatus) = config_.system_clock
  /\ log' = log \o <<PollRead("CFGR", clock_control.CFGR)>>
  /\ system_clock' = SystemClockRate(config_, pll_clock_rate_)
  /\ UNCHANGED <<clock_control, flash, stmRates>>

\* Steps 7.3 and 7.4 Select the RTC source and enable or disable the RTC.
Initialize_Step7_3 ==
  LET b1 == Insert(clock_control.BDCR, config_.rtc_source, RtcRegisters.kRtcSourceSelect)
      b2 == Insert(HwBDCR(clock_control.BDCR, b1), BoolValue(config_.rtc_enable),
                   RtcRegisters.kRtcEnable)
  IN  /\ StmStep("step7_3", "step8")
      /\ clock_control' =
           [clock_control EXCEPT !.BDCR = HwBDCR(HwBDCR(@, b1), b2)]
      /\ log' = log \o <<Write("BDCR", b1), Write("BDCR", b2)>>
      /\ UNCHANGED <<flash, system_clock, stmRates>>

\* The AHB prescaler taken for a plain power-of-two ladder: the hardware has
\* no divide-by-32 step.
AhbDivisorLadder(code) ==
  CASE code = 0 -> 1   [] code = 8 -> 2    [] code = 9 -> 4
    [] code = 10 -> 8  [] code = 11 -> 16  [] code = 12 -> 32
    [] code = 13 -> 64 [] code = 14 -> 128 [] code = 15 -> 256

\* switch (config_.ahb.divider)
AhbDivisor(code) ==
  CASE code = 0 -> 1   [] code = 8 -> 2    [] code = 9 -> 4
    [] code = 10 -> 8  [] code = 11 -> 16  [] code = 12 -> 64
    [] code = 13 -> 128 [] code = 14 -> 256 [] code = 15 -> 512

\* switch (config_.ahb.apb1.divider), switch (config_.ahb.apb2.divider)
ApbDivisor(code) ==
  CASE code = 0 -> 1 [] code = 4 -> 2 [] code = 5 -> 4
    [] code = 6 -> 8 [] code = 7 -> 16

\* switch (config_.ahb.apb2.adc.divider)
AdcDivisor(code) ==
  CASE code = 0 -> 2 [] code = 1 -> 4 [] code = 2 -> 6 [] code = 3 -> 8

\* switch (config_.rtc.source)
RtcRate(config) ==
  CASE config.rtc_source = kRtcNoClock -> 0
    [] config.rtc_source = kRtcLowSpeedInternal -> kLowSpeedInternal
    [] config.rtc_source = kRtcLowSpeedExternal -> config.low_speed_external
    [] config.rtc_source = kRtcHighSpeedExternalDividedBy128 ->
         config.high_speed_external \div 128

\* switch (config_.pll.usb.divider)
UsbRate(config, pll_rate) ==
  CASE config.pll_usb_divider = kUsbDivideBy1 -> pll_rate
    [] config.pll_usb_divider = kUsbDivideBy1Point5 -> (pll_rate * 2) \div 3

\* timer_apbN_clock_rate_: the bus rate, doubled unless the divider is 1.
TimerRate(code, apb_rate) == IF code = 0 THEN apb_rate ELSE apb_rate * 2

\* Step 8. Define the clock rates for the system.
Initialize_Step8 ==
  LET ahb  == system_clock \div AhbDivisor(config_.ahb_divider)
      apb1 == ahb \div ApbDivisor(config_.apb1_divider)
      apb2 == ahb \div ApbDivisor(config_.apb2_divider)
  IN  /\ StmStep("step8", "done")
      /\ ahb_clock_rate_' = ahb
      /\ apb1_clock_rate_' = apb1
      /\ apb2_clock_rate_' = apb2
      /\ rtc_clock_rate_' = RtcRate(config_)
      /\ usb_clock_rate_' = UsbRate(config_, pll_clock_rate_)
      /\ timer_apb1_clock_rate_' = TimerRate(config_.apb1_divider, apb1)
      /\ timer_apb2_clock_rate_' = TimerRate(config_.apb2_divider, apb2)
      /\ adc_clock_rate_' = apb2 \div AdcDivisor(config_.adc_divider)
      /\ UNCHANGED <<clock_control, log, flash, system_clock, pll_clock_rate_>>

\* The last range check left without its upper limit.
StmGetClockRateUnbounded(device_id) ==
  CASE device_id = kI2s -> pll_clock_rate_
    [] device_id = kUsb -> usb_clock_rate_
    [] device_id = kFlitf -> kHighSpeedInternal
    [] device_id \in {kSystemTimer, kCpu} -> ahb_clock_rate_
    [] device_id \in Apb1Timers -> timer_apb1_clock_rate_
    [] device_id \in Apb2Timers -> timer_apb2_clock_rate_
    [] device_id \in Adcs -> adc_clock_rate_
    [] OTHER ->
         IF device_id < kAPB1 THEN ahb_clock_rate_
         ELSE IF kAPB1 <= device_id /\ device_id < kAPB2 THEN apb1_clock_rate_
         ELSE apb2_clock_rate_

\* stm32f10x::SystemController::GetClockRate
StmGetClockRate(device_id) ==
  CASE device_id = kI2s -> pll_clock_rate_
    [] device_id = kUsb -> usb_clock_rate_
    [] device_id = kFlitf -> kHighSpeedInternal
    [] device_id \in {kSystemTimer, kCpu} -> ahb_clock_rate_
    [] device_id \in Apb1Timers -> timer_apb1_clock_rate_
    [] device_id \in Apb2Timers -> timer_apb2_clock_rate_
    [] device_id \in Adcs -> adc_clock_rate_
    [] OTHER ->
         IF device_id < kAPB1 THEN ahb_clock_rate_
         ELSE IF kAPB1 <= device_id /\ device_id < kAPB2 THEN apb1_clock_rate_
         ELSE IF kAPB2 <= device_id /\ device_id < kBeyond THEN apb2_clock_rate_
         ELSE 0

StmInitialize ==
  \/ Initialize_Step1
  \/ Initialize_Step2
  \/ Initialize_Step3_1
  \/ Initialize_Step3_1_Wait
  \/ Initialize_Step3_2
  \/ Initialize_Step3_2_Wait
  \/ Initialize_Step4
  \/ Initialize_Step5
  \/ Initialize_Step5_Wait
  \/ Initialize_Step6
  \/ Initialize_Step7_1
  \/ Initialize_Step7_2
  \/ Initialize_Step7_2_Wait
  \/ Initialize_Step7_3
  \/ Initialize_Step8

StmHardware ==
  \/ HwExternalOscReady
  \/ HwLowSpeedOscReady
  \/ HwPllReady
  \/ HwSystemClockSwitch

\* The msp432p401r variables while the behaviour is about stm32f10x.
MspUnused ==
  /\ clock_configuration_ = <<>>
  /\ clock_system = <<>>
  /\ clock_rates_ = <<>>
  /\ dco = 0
  /\ refo = 0
  /\ kPlatformHost = FALSE

StmStartFrom(scenario, rcc) ==
  /\ family = "stm32f10x"
  /\ pc = "idle"
  /\ log = <<>>
  /\ result = NoResult
  /\ previous_rates = NoRates
  /\ DriversUnused
  /\ config_ = [f \in DOMAIN ClockConfiguration |-> scenario[f]]
  /\ clock_control = rcc
  /\ flash = StmRegisterFile(scenario.registers).flash
  /\ system_clock = 0
  /\ rtc_clock_rate_ = 0
  /\ usb_clock_rate_ = 0
  /\ pll_clock_rate_ = 0
  /\ ahb_clock_rate_ = 0
  /\ apb1_clock_rate_ = 0
  /\ apb2_clock_rate_ = 0
  /\ timer_apb1_clock_rate_ = 0
  /\ timer_apb2_clock_rate_ = 0
  /\ adc_clock_rate_ = 0
  /\ MspUnused

\* The controller before Initialize, against the register file of the scenario.
StmStart(scenario) ==
  StmStartFrom(scenario, StmRegisterFile(scenario.registers).rcc)


-----------------------------------------------------------------------------
(* msp432p401r: identities, enumerations and register fields.              *)

kClockPeripheralCount == 10

\* Modules / Clock
kAuxiliary == 0
kMaster == 1
kSubsystemMaster == 2
kLowSpeedSubsystemMaster == 3
kBackup == 4
kReferenceClock == 7

\* Oscillator
kLowFrequency == 0
kVeryLowFrequency == 1
kReference == 2
kDigitallyControlled == 3
kModule == 4
kHighFrequency == 5

Oscillator == {kLowFrequency, kVeryLowFrequency, kReference,
               kDigitallyControlled, kModule, kHighFrequency}

ClockDivider == 0 .. 7

\* InternalOscillator and ExternalOscillator
kVlo == 9400

kMod == MHz(25)

kSystem == MHz(5)

kLfxt == 32768

kHfxt == MHz(48)

\* InternalOscillator::kReference
ReferenceRates == <<32768, kHz(128)>>

\* KeyRegister, Control0Register, Control1Register, ClockEnableRegister
KeyRegister ==
  [kCsKey |-> CreateMaskFromRange(0, 15)]
Control0Register ==
  [kTuningSelect |-> CreateMaskFromRange(0, 9),
   kFrequencySelect |-> CreateMaskFromRange(16, 18),
   kEnable |-> CreateMaskFromRange(23, 23)]
Control1Register ==
  [kMasterClockSourceSelect |-> CreateMaskFromRange(0, 2),
   kSubsystemClockSourceSelect |-> CreateMaskFromRange(4, 6),
   kAuxiliaryClockSourceSelect |-> CreateMaskFromRange(8, 10),
   kBackupClockSourceSelect |-> CreateMaskFromRange(12, 12),
   kMasterClockDividerSelect |-> CreateMaskFromRange(16, 18),
   kSubsystemClockDividerSelect |-> CreateMaskFromRange(20, 22),
   kAuxiliaryClockDividerSelect |-> CreateMaskFromRange(24, 26),
   kLowSpeedSubsystemClockDividerSelect |-> CreateMaskFromRange(28, 30)]
ClockEnableRegister ==
  [kReferenceFrequencySelect |-> CreateMaskFromRange(15, 15)]

kUnlockKey == 26970    \* 0x695A

kLockKey == 0

kClockReadyBit == 24

\* A default-constructed msp432p401r ClockConfiguration_t.
ClockConfiguration_t ==
  [auxiliary_clock_source            |-> kReference,
   auxiliary_divider                 |-> 0,
   master_clock_source               |-> kDigitallyControlled,
   master_divider                    |-> 0,
   subsystem_master_clock_source     |-> kDigitallyControlled,
   subsystem_master_divider          |-> 0,
   subsystem_master_low_speed_divider |-> 0,
   backup_clock_source               |-> kReference,
   reference_frequency_select        |-> 0,
   dco_enabled                       |-> TRUE,
   dco_frequency                     |-> MHz(3)]

\* Every clock runs from the reference oscillator and the DCO is left off.
ReferenceOnly ==
  [ClockConfiguration_t EXCEPT !.master_clock_source = kReference,
                               !.subsystem_master_clock_source = kReference,
                               !.dco_enabled = FALSE]

\* Target frequencies asked of the DCO: below, inside (with every range
\* boundary) and above the 1 MHz .. 48 MHz window.
DcoFrequencies ==
  {kHz(500), MHz(1), kHz(1500), MHz(2), MHz(3), MHz(4), MHz(8), MHz(12),
   MHz(16), MHz(24), MHz(32), MHz(48), MHz(50)}

\* The values a caller can give each field; frequency_select is a uint8_t.
MspFieldValues(f) ==
  CASE f \in {"auxiliary_clock_source", "master_clock_source",
              "subsystem_master_clock_source", "backup_clock_source"} ->
         Oscillator
    [] f \in {"auxiliary_divider", "master_divider", "subsystem_master_divider",
              "subsystem_master_low_speed_divider"} -> ClockDivider
    [] f = "reference_frequency_select" -> {0, 1, 2}
    [] f = "dco_enabled" -> BOOLEAN
    [] f = "dco_frequency" -> DcoFrequencies

\* Register contents Initialize can find: a running chip whose clocks all
\* report ready, and a register file in which no clock reports ready yet.
MspRegisterFile(registers) ==
  CASE registers = "ready" ->
         [KEY |-> 0, CTL0 |-> 65536, CTL1 |-> 51, CLKEN |-> 0,
          STAT |-> 520093696]          \* 0x1F000000: ready bits 24 .. 28
    [] registers = "not_ready" ->
         [KEY |-> 0, CTL0 |-> 65536, CTL1 |-> 51, CLKEN |-> 0, STAT |-> 0]

\* The device descriptor (TLV) calibration words the DCO tuning reads.
device_descriptors ==
  [DCOIR_CONSTK_RSEL04 |-> 10, DCOIR_FCAL_RSEL04 |-> 700,
   DCOIR_CONSTK_RSEL5  |-> 12, DCOIR_FCAL_RSEL5  |-> 720]

MspScenarioValues(f) ==
  CASE f = "registers" -> {"ready", "not_ready"}
    [] f = "host" -> BOOLEAN
    [] OTHER -> MspFieldValues(f)

MspBaseScenarios ==
  {c @@ [registers |-> "ready", host |-> FALSE]
     : c \in {ClockConfiguration_t, ReferenceOnly}}

MspScenarios(base, changed) ==
  LET fields == DOMAIN ClockConfiguration_t \cup {"registers", "host"}
  IN  Deviations(base, changed, [f \in fields |-> MspScenarioValues(f)])

-----------------------------------------------------------------------------
(* msp432p401r: the clock system hardware.  A write to CTL0, CTL1 or CLKEN *)
(* takes effect only while the key register holds the unlock key.          *)

Unlocked(cs) == Extract(cs.KEY, KeyRegister.kCsKey) = kUnlockKey

HwCsWrite(cs, reg, val) ==
  IF reg = "KEY" \/ Unlocked(cs) THEN [cs EXCEPT ![reg] = val] ELSE cs

ReadyBit(clock) ==
  CreateMaskFromRange(kClockReadyBit + clock, kClockReadyBit + clock)

\* The ready status of a primary clock rises once the clock is stable.
HwClockReady ==
  /\ family = "msp432p401r"
  /\ \E clock \in kAuxiliary .. kBackup :
       /\ ~Read(clock_system.STAT, ReadyBit(clock))
       /\ clock_system' = [clock_system EXCEPT !.STAT = Set(@, ReadyBit(clock))]
  /\ UNCHANGED <<family, previous_rates, driverVars, pc, log, result, stmVars, clock_configuration_,
                 clock_rates_, dco, refo, kPlatformHost>>

-----------------------------------------------------------------------------
(* msp432p401r::SystemController                                           *)

\* UnlockClockSystemRegisters
UnlockValue(cs) == Insert(cs.KEY, kUnlockKey, KeyRegister.kCsKey)

\* LockClockSystemRegisters
LockValue(cs) == Insert(cs.KEY, kLockKey, KeyRegister.kCsKey)

\* Unlock, write `value` to `reg`, lock: the register file and the writes.
\* `value` is computed from the register as read after the unlock, which the
\* key write leaves as it was.
Bracketed(cs, reg, value) ==
  LET unlock == UnlockValue(cs)
      cs1    == HwCsWrite(cs, "KEY", unlock)
      cs2    == HwCsWrite(cs1, reg, value)
      lock   == LockValue(cs2)
  IN  [cs |-> HwCsWrite(cs2, "KEY", lock),
       writes |-> <<Write("KEY", unlock), Write(reg, value), Write("KEY", lock)>>]

MspStep(from, to) ==
  /\ family = "msp432p401r"
  /\ pc = from
  /\ pc' = to
  /\ UNCHANGED <<family, previous_rates, driverVars, result, stmVars, clock_configuration_, kPlatformHost>>

\* static_cast<int16_t>(kDividend / kDivisor): the quotient cut toward zero.
Truncate(dividend, divisor) ==
  IF dividend >= 0 THEN dividend \div divisor
  ELSE 0 - ((0 - dividend) \div divisor)

\* The range limits taken as belonging to the range below them.
DcoFrequencySelectExclusive(target) ==
  IF target > MHz(32) THEN 5
  ELSE IF target > MHz(16) THEN 4
  ELSE IF target > MHz(8) THEN 3
  ELSE IF target > MHz(4) THEN 2
  ELSE IF target > MHz(2) THEN 1
  ELSE 0

\* ConfigureDcoClock, step 2: the frequency range of the target frequency.
DcoFrequencySelect(target) ==
  IF target >= MHz(32) THEN 5
  ELSE IF target >= MHz(16) THEN 4
  ELSE IF target >= MHz(8) THEN 3
  ELSE IF target >= MHz(4) THEN 2
  ELSE IF target >= MHz(2) THEN 1
  ELSE 0

\* kDcoCenterFrequencies
DcoCenterFrequency(select) == kHz(1500) * (2 ^ select)

\* ConfigureDcoClock, step 3: the tuning value of equation 6.
DcoTuningValue(target) ==
  LET select      == DcoFrequencySelect(target)
      constant    == IF select = 5 THEN device_descriptors.DCOIR_CONSTK_RSEL5
                     ELSE device_descriptors.DCOIR_CONSTK_RSEL04
      calibration == IF select = 5 THEN device_descriptors.DCOIR_FCAL_RSEL5
                     ELSE device_descriptors.DCOIR_FCAL_RSEL04
      difference  == (target - DcoCenterFrequency(select)) \div 1000
      dividend    == difference * (1 + constant * (768 - calibration))
      divisor     == (target \div 1000) * constant
  IN  Truncate(dividend, divisor)

\* ConfigureDcoClock, step 4: the value written to CTL0.
DcoControl0(ctl0, target) ==
  Set(Insert(Insert(ctl0, DcoTuningValue(target), Control0Register.kTuningSelect),
             DcoFrequencySelect(target), Control0Register.kFrequencySelect),
      Control0Register.kEnable)

\* The range check of ConfigureDcoClock, made only when the DCO is enabled.
DcoFrequencyValid(config) ==
  config.dco_enabled =>
    (MHz(1) <= config.dco_frequency /\ config.dco_frequency <= MHz(48))

\* ConfigureDcoClock returns the target frequency, enabled or not.
ConfigureDcoClockReturn(config) == config.dco_frequency

\* Step 1, first half: units::frequency::hertz_t dco = ConfigureDcoClock();
Initialize_ConfigureDcoClock ==
  /\ family = "msp432p401r"
  /\ pc = "idle"
  /\ result = NoResult     \* the caller is not inside another call
  /\ IF ~DcoFrequencyValid(clock_configuration_)
     THEN /\ MspStep("idle", Halted)
          /\ UNCHANGED <<log, clock_system, clock_rates_, dco, refo>>
     ELSE /\ MspStep("idle", "configure_reference")
          /\ dco' = ConfigureDcoClockReturn(clock_configuration_)
          /\ IF clock_configuration_.dco_enabled
             THEN LET b == Bracketed(clock_system, "CTL0",
                                     DcoControl0(clock_system.CTL0,
                                       clock_configuration_.dco_frequency))
                  IN  /\ clock_system' = b.cs
                      /\ log' = log \o b.writes
             ELSE UNCHANGED <<log, clock_system>>
          /\ UNCHANGED <<clock_rates_, refo>>

\* Step 1, second half: units::frequency::hertz_t refo = ConfigureReferenceClock();
Initialize_ConfigureReferenceClock ==
  LET select == clock_configuration_.reference_frequency_select
      clken  == Insert(clock_system.CLKEN, select, ClockEnableRegister.kReferenceFrequencySelect)
  IN  /\ family = "msp432p401r"
      /\ pc = "configure_reference"
      /\ IF ~(select <= 1)
         THEN /\ MspStep("configure_reference", Halted)
              /\ UNCHANGED <<log, clock_system, clock_rates_, dco, refo>>
         ELSE /\ MspStep("configure_reference", "source_auxiliary")
              /\ clock_system' = HwCsWrite(clock_system, "CLKEN", clken)
              /\ log' = log \o <<Write("CLKEN", clken)>>
              /\ refo' = ReferenceRates[select + 1]
              /\ UNCHANGED <<clock_rates_, dco>>

\* kPrimaryClockSelectMasks
PrimaryClockSelectMask(clock) ==
  CASE clock = kAuxiliary -> Control1Register.kAuxiliaryClockSourceSelect
    [] clock = kMaster -> Control1Register.kMasterClockSourceSelect
    [] clock = kSubsystemMaster -> Control1Register.kSubsystemClockSourceSelect
    [] clock = kLowSpeedSubsystemMaster -> Control1Register.kSubsystemClockSourceSelect
    [] clock = kBackup -> Control1Register.kBackupClockSourceSelect

\* The legality assertions dropped: the select value is clamped to the
\* width of the field by the insert.
SourceAllowedUnchecked(clock, source) ==
  clock \in {kAuxiliary, kMaster, kSubsystemMaster, kLowSpeedSubsystemMaster,
             kBackup}

\* SetClockSource: the assertions on the clock and its source.
SourceAllowed(clock, source) ==
  CASE clock \in {kMaster, kSubsystemMaster, kLowSpeedSubsystemMaster} -> TRUE
    [] clock = kAuxiliary -> source <= kReference
    [] clock = kBackup -> source \in {kLowFrequency, kReference}
    [] OTHER -> FALSE

\* SetClockSource: the code inserted into the select field.
SelectValue(clock, source) ==
  IF clock = kBackup /\ source = kReference THEN 1 ELSE source

\* Step 2. SetClockSource(clock, source)
SetClockSource(clock, source, from, to) ==
  /\ family = "msp432p401r"
  /\ pc = from
  /\ IF ~SourceAllowed(clock, source)
     THEN /\ MspStep(from, Halted)
          /\ UNCHANGED <<log, clock_system, clock_rates_, dco, refo>>
     ELSE LET ctl1 == Insert(clock_system.CTL1, SelectValue(clock, source),
                             PrimaryClockSelectMask(clock))
          IN  /\ MspStep(from, to)
              /\ clock_system' = HwCsWrite(clock_system, "CTL1", ctl1)
              /\ log' = log \o <<Write("CTL1", ctl1)>>
              /\ UNCHANGED <<clock_rates_, dco, refo>>

Initialize_SetAuxiliarySource ==
  SetClockSource(kAuxiliary, clock_configuration_.auxiliary_clock_source,
                 "source_auxiliary", "source_master")

Initialize_SetMasterSource ==
  SetClockSource(kMaster, clock_configuration_.master_clock_source,
                 "source_master", "source_subsystem")

Initialize_SetSubsystemMasterSource ==
  SetClockSource(kSubsystemMaster,
                 clock_configuration_.subsystem_master_clock_source,
                 "source_subsystem", "source_backup")

Initialize_SetBackupSource ==
  SetClockSource(kBackup, clock_configuration_.backup_clock_source,
                 "source_backup", "divider_auxiliary")

\* kDividerSelectMasks
DividerSelectMask(clock) ==
  CASE clock = kAuxiliary -> Control1Register.kAuxiliaryClockDividerSelect
    [] clock = kMaster -> Control1Register.kMasterClockDividerSelect
    [] clock = kSubsystemMaster -> Control1Register.kSubsystemClockDividerSelect
    [] clock = kLowSpeedSubsystemMaster -> Control1Register.kLowSpeedSubsystemClockDividerSelect

\* The setter taken to refresh the rate of the clock it divides.
SetClockDividerRefreshing(clock, divider, from, to) ==
  /\ family = "msp432p401r"
  /\ pc = from
  /\ IF ~(clock <= kLowSpeedSubsystemMaster)
     THEN /\ MspStep(from, Halted)
          /\ UNCHANGED <<log, clock_system, clock_rates_, dco, refo>>
     ELSE LET b == Bracketed(clock_system, "CTL1",
                             Insert(clock_system.CTL1, divider,
                                    DividerSelectMask(clock)))
          IN  /\ MspStep(from, to)
              /\ clock_system' = b.cs
              /\ log' = log \o b.writes
              /\ clock_rates_' =
                   [clock_rates_ EXCEPT ![clock] = @ \div (2 ^ divider)]
              /\ UNCHANGED <<dco, refo>>

\* Step 3. SetClockDivider(clock, divider), up to the call of
\* WaitForClockReadyStatus.
SetClockDivider(clock, divider, from, to) ==
  /\ family = "msp432p401r"
  /\ pc = from
  /\ IF ~(clock <= kLowSpeedSubsystemMaster)
     THEN /\ MspStep(from, Halted)
          /\ UNCHANGED <<log, clock_system, clock_rates_, dco, refo>>
     ELSE LET b == Bracketed(clock_system, "CTL1",
                             Insert(clock_system.CTL1, divider,
                                    DividerSelectMask(clock)))
          IN  /\ MspStep(from, to)
              /\ clock_system' = b.cs
              /\ log' = log \o b.writes
              /\ UNCHANGED <<clock_rates_, dco, refo>>

\* The loop condition inverted: the poll goes on while the clock is ready.
WaitForClockReadyStatusWhileReady(clock, from, to) ==
  /\ family = "msp432p401r"
  /\ pc = from
  /\ IF kPlatformHost
     THEN /\ MspStep(from, to)
          /\ UNCHANGED <<log, clock_system, clock_rates_, dco, refo>>
     ELSE IF ~(clock <= kBackup)
     THEN /\ MspStep(from, Halted)
          /\ UNCHANGED <<log, clock_system, clock_rates_, dco, refo>>
     ELSE /\ ~Read(clock_system.STAT, ReadyBit(clock))
          /\ MspStep(from, to)
          /\ log' = log \o <<PollRead("STAT", clock_system.STAT)>>
          /\ UNCHANGED <<clock_system, clock_rates_, dco, refo>>

\* WaitForClockReadyStatus(clock): returns at once on the host platform,
\* otherwise polls the ready bit of the clock.
WaitForClockReadyStatus(clock, from, to) ==
  /\ family = "msp432p401r"
  /\ pc = from
  /\ IF kPlatformHost
     THEN /\ MspStep(from, to)
          /\ UNCHANGED <<log, clock_system, clock_rates_, dco, refo>>
     ELSE IF ~(clock <= kBackup)
     THEN /\ MspStep(from, Halted)
          /\ UNCHANGED <<log, clock_system, clock_rates_, dco, refo>>
     ELSE /\ Read(clock_system.STAT, ReadyBit(clock))
          /\ MspStep(from, to)
          /\ log' = log \o <<PollRead("STAT", clock_system.STAT)>>
          /\ UNCHANGED <<clock_system, clock_rates_, dco, refo>>

Initialize_SetAuxiliaryDivider ==
  SetClockDivider(kAuxiliary, clock_configuration_.auxiliary_divider,
                  "divider_auxiliary", "wait_auxiliary")

Initialize_WaitAuxiliary ==
  WaitForClockReadyStatus(kAuxiliary, "wait_auxiliary", "divider_master")

Initialize_SetMasterDivider ==
  SetClockDivider(kMaster, clock_configuration_.master_divider,
                  "divider_master", "wait_master")

Initialize_WaitMaster ==
  WaitForClockReadyStatus(kMaster, "wait_master", "divider_subsystem")

Initialize_SetSubsystemMasterDivider ==
  SetClockDivider(kSubsystemMaster,
                  clock_configuration_.subsystem_master_divider,
                  "divider_subsystem", "wait_subsystem")

Initialize_WaitSubsystemMaster ==
  WaitForClockReadyStatus(kSubsystemMaster, "wait_subsystem",
                          "divider_low_speed")

Initialize_SetLowSpeedDivider ==
  SetClockDivider(kLowSpeedSubsystemMaster,
                  clock_configuration_.subsystem_master_low_speed_divider,
                  "divider_low_speed", "wait_low_speed")

Initialize_WaitLowSpeed ==
  WaitForClockReadyStatus(kLowSpeedSubsystemMaster, "wait_low_speed", "step4")

\* Step 4: the switch over auxiliary.clock_source and backup.clock_source
\* with a default that leaves the rate at 0 Hz.
RestrictedSourceRate(source, allowed, reference) ==
  CASE source \notin allowed -> 0
    [] source = kLowFrequency -> kLfxt
    [] source = kVeryLowFrequency -> kVlo
    [] source = kReference -> reference

\* Step 4: the switch over master.clock_source and
\* subsystem_master.clock_source.
SourceRate(source, reference, digitally_controlled) ==
  CASE source = kLowFrequency -> kLfxt
    [] source = kVeryLowFrequency -> kVlo
    [] source = kReference -> reference
    [] source = kDigitallyControlled -> digitally_controlled
    [] source = kModule -> kMod
    [] source = kHighFrequency -> kHfxt

\* The divider code taken for the divisor less one.
DividedByCode(rate, divider) == rate \div (divider + 1)

\* clock / (1 << Value(divider))
Divided(rate, divider) == rate \div (2 ^ divider)

\* Step 4. Determine the clock rate of each of the clocks.
Initialize_DetermineClockRates ==
  LET config == clock_configuration_
      aclk   == RestrictedSourceRate(config.auxiliary_clock_source,
                  {kLowFrequency, kVeryLowFrequency, kReference}, refo)
      mclk   == SourceRate(config.master_clock_source, refo, dco)
      smclk  == SourceRate(config.subsystem_master_clock_source, refo, dco)
      bclk   == RestrictedSourceRate(config.backup_clock_source,
                  {kLowFrequency, kReference}, refo)
  IN  /\ MspStep("step4", "done")
      /\ clock_rates_' =
           [clock_rates_ EXCEPT
              ![kAuxiliary] = Divided(aclk, config.auxiliary_divider),
              ![kMaster] = Divided(mclk, config.master_divider),
              ![kSubsystemMaster] =
                 Divided(smclk, config.subsystem_master_divider),
              ![kLowSpeedSubsystemMaster] =
                 Divided(smclk, config.subsystem_master_low_speed_divider),
              ![kBackup] = bclk,
              ![kReferenceClock] = refo]
      /\ UNCHANGED <<log, clock_system, dco, refo>>

\* msp432p401r::SystemController::GetClockRate
MspGetClockRate(device_id) ==
  IF device_id >= kClockPeripheralCount THEN 0 ELSE clock_rates_[device_id]

MspInitialize ==
  \/ Initialize_ConfigureDcoClock
  \/ Initialize_ConfigureReferenceClock
  \/ Initialize_SetAuxiliarySource
  \/ Initialize_SetMasterSource
  \/ Initialize_SetSubsystemMasterSource
  \/ Initialize_SetBackupSource
  \/ Initialize_SetAuxiliaryDivider
  \/ Initialize_WaitAuxiliary
  \/ Initialize_SetMasterDivider
  \/ Initialize_WaitMaster
  \/ Initialize_SetSubsystemMasterDivider
  \/ Initialize_WaitSubsystemMaster
  \/ Initialize_SetLowSpeedDivider
  \/ Initialize_WaitLowSpeed
  \/ Initialize_DetermineClockRates

\* The stm32f10x variables while the behaviour is about msp432p401r.
StmUnused ==
  /\ config_ = <<>>
  /\ clock_control = <<>>
  /\ flash = <<>>
  /\ system_clock = 0
  /\ rtc_clock_rate_ = 0
  /\ usb_clock_rate_ = 0
  /\ pll_clock_rate_ = 0
  /\ ahb_clock_rate_ = 0
  /\ apb1_clock_rate_ = 0
  /\ apb2_clock_rate_ = 0
  /\ timer_apb1_clock_rate_ = 0
  /\ timer_apb2_clock_rate_ = 0
  /\ adc_clock_rate_ = 0

\* clock_rates_ as the member initialiser leaves it.
InitialClockRates ==
  [id \in 0 .. (kClockPeripheralCount - 1) |->
     CASE id = 5 -> kLfxt
       [] id = 6 -> kVlo
       [] id = 8 -> kMod
       [] id = 9 -> kSystem
       [] OTHER -> 0]

MspStart(scenario) ==
  /\ family = "msp432p401r"
  /\ pc = "idle"
  /\ log = <<>>
  /\ result = NoResult
  /\ previous_rates = NoRates
  /\ DriversUnused
  /\ clock_configuration_ = [f \in DOMAIN ClockConfiguration_t |-> scenario[f]]
  /\ clock_system = MspRegisterFile(scenario.registers)
  /\ kPlatformHost = scenario.host
  /\ clock_rates_ = InitialClockRates
  /\ dco = 0
  /\ refo = 0
  /\ StmUnused

-----------------------------------------------------------------------------
(* The query interface: calls made by other drivers while Initialize is    *)
(* not running.                                                            *)

\* A caller asks for the rate of an identity.
StmGetClockRateCall ==
  /\ family = "stm32f10x"
  /\ pc \in {"idle", "done"}
  /\ result = NoResult
  /\ \E device_id \in 0 .. MaxDeviceId :
       result' = [op |-> "GetClockRate", id |-> device_id,
                  value |-> StmGetClockRate(device_id), index |-> NoIndex]
  /\ UNCHANGED <<family, previous_rates, driverVars, pc, log, stmVars, mspVars>>

MspGetClockRateCall ==
  /\ family = "msp432p401r"
  /\ pc \in {"idle", "done"}
  /\ result = NoResult
  /\ \E device_id \in 0 .. MaxDeviceId :
       result' = [op |-> "GetClockRate", id |-> device_id,
                  value |-> MspGetClockRate(device_id), index |-> NoIndex]
  /\ UNCHANGED <<family, previous_rates, driverVars, pc, log, stmVars, mspVars>>

\* static inline volatile uint32_t * enable[]
enable == <<"AHBENR", "APB1ENR", "APB2ENR">>

\* EnableRegister(id) is enable[id.device_id / kBits]
EnableIndex(device_id) == device_id \div kBits

\* EnableBitPosition(id)
EnableBitPosition(device_id) == device_id % kBits

\* What reading *EnableRegister(id) can give.  Past the last entry of
\* `enable` the pointer read is whatever lies behind the table, so the bit
\* can read either way.
EnableBitReads(device_id) ==
  IF EnableIndex(device_id) < Len(enable)
  THEN {BoolValue(Read(clock_control[enable[EnableIndex(device_id) + 1]],
                       CreateMaskFromRange(EnableBitPosition(device_id),
                                           EnableBitPosition(device_id))))}
  ELSE {0, 1}

\* stm32f10x::SystemController::IsPeripheralPoweredUp
StmIsPeripheralPoweredUpCall ==
  /\ family = "stm32f10x"
  /\ pc \in {"idle", "done"}
  /\ result = NoResult
  /\ \E device_id \in 0 .. MaxDeviceId :
       \E value \in EnableBitReads(device_id) :
         result' = [op |-> "IsPeripheralPoweredUp", id |-> device_id,
                    value |-> value, index |-> {EnableIndex(device_id)}]
  /\ UNCHANGED <<family, previous_rates, driverVars, pc, log, stmVars, mspVars>>

\* The single-bit mask the power-gating functions hand to bit::Set,
\* bit::Clear and bit::Read.
EnableBitMask(device_id) ==
  CreateMaskFromRange(EnableBitPosition(device_id), EnableBitPosition(device_id))

\* Whether enable[id.device_id / kBits] is an entry of the table.
InEnableTable(device_id) == EnableIndex(device_id) < Len(enable)

\* bit::Read(*EnableRegister(id), EnableBitPosition(id)) on the RCC registers
\* `registers`, for an identity inside the table.
IsPeripheralPoweredUp(registers, device_id) ==
  Read(registers[enable[EnableIndex(device_id) + 1]], EnableBitMask(device_id))

\* *EnableRegister(id) = bit::Set(*EnableRegister(id), EnableBitPosition(id))
PowerUpPeripheral(registers, device_id) ==
  [registers EXCEPT ![enable[EnableIndex(device_id) + 1]] =
                       Set(@, EnableBitMask(device_id))]

PowerDownPeripheralNoClear(registers, device_id) == registers

\* *EnableRegister(id) = bit::Clear(*EnableRegister(id), EnableBitPosition(id))
PowerDownPeripheral(registers, device_id) ==
  [registers EXCEPT ![enable[EnableIndex(device_id) + 1]] =
                       Clear(@, EnableBitMask(device_id))]

\* What a power-gating write leaves in the RCC registers.  Past the last
\* entry of `enable` the pointer written through is whatever lies behind the
\* table: the write can miss the RCC registers or land on any of them.
GatingOutcomes(registers, device_id, up) ==
  IF InEnableTable(device_id)
  THEN {IF up THEN PowerUpPeripheral(registers, device_id)
              ELSE PowerDownPeripheral(registers, device_id)}
  ELSE {registers}
         \cup {[registers EXCEPT ![r] = IF up THEN Set(@, EnableBitMask(device_id))
                                              ELSE Clear(@, EnableBitMask(device_id))]
                 : r \in {enable[i] : i \in DOMAIN enable}}

\* The identities the explored power-gating calls are made on: two of the
\* AHB group, two of the APB1 group, one of the APB2 group and one of the
\* identities past the three groups.
GatingIds == {kAHB + 0, kAHB + 4, kAPB1 + 17, kAPB1 + 28, kAPB2 + 0, kCpu}

\* stm32f10x::SystemController::PowerUpPeripheral
StmPowerUpPeripheralCall ==
  /\ family = "stm32f10x"
  /\ pc \in {"idle", "done"}
  /\ result = NoResult
  /\ \E device_id \in GatingIds :
       /\ clock_control' \in GatingOutcomes(clock_control, device_id, TRUE)
       /\ result' = [op |-> "PowerUpPeripheral", id |-> device_id,
                     value |-> 0, index |-> {EnableIndex(device_id)}]
  /\ UNCHANGED <<family, previous_rates, driverVars, pc, log, config_, flash, system_clock, stmRates, mspVars>>

\* stm32f10x::SystemController::PowerDownPeripheral
StmPowerDownPeripheralCall ==
  /\ family = "stm32f10x"
  /\ pc \in {"idle", "done"}
  /\ result = NoResult
  /\ \E device_id \in GatingIds :
       /\ clock_control' \in GatingOutcomes(clock_control, device_id, FALSE)
       /\ result' = [op |-> "PowerDownPeripheral", id |-> device_id,
                     value |-> 0, index |-> {EnableIndex(device_id)}]
  /\ UNCHANGED <<family, previous_rates, driverVars, pc, log, config_, flash, system_clock, stmRates, mspVars>>

\* The control flows that can be inside a power-gating call at a time: the
\* main flow and an interrupt handler or a second thread.
Flows == {"main", "second"}

\* The enable register EnableRegister(id) points to, for an identity inside
\* the table.
EnableRegister(device_id) == enable[EnableIndex(device_id) + 1]

\* `*EnableRegister(id) = bit::Set(*EnableRegister(id), ...)`, first half:
\* the control flow `flow` enters PowerUpPeripheral (`up`) or
\* PowerDownPeripheral and reads the volatile enable register.
GatingLoad(flow) ==
  /\ family = "stm32f10x"
  /\ pc \in {"idle", "done"}
  /\ flow \notin DOMAIN gating
  /\ \E device_id \in {id \in GatingIds : InEnableTable(id)}, up \in BOOLEAN :
       gating' = [f \in DOMAIN gating \cup {flow} |->
                    IF f = flow
                    THEN [pc |-> "loaded", id |-> device_id, up |-> up,
                          value |-> clock_control[EnableRegister(device_id)]]
                    ELSE gating[f]]
  /\ UNCHANGED <<family, previous_rates, pc, log, result, stmVars, mspVars,
                 uart_port_, until, throw_on_failure, wait, parse>>

\* The store taken to set or clear the bit in the register as it is now.
GatingStoreAtomic(flow) ==
  /\ family = "stm32f10x"
  /\ flow \in DOMAIN gating
  /\ gating[flow].pc = "loaded"
  /\ clock_control' = IF gating[flow].up
                      THEN PowerUpPeripheral(clock_control, gating[flow].id)
                      ELSE PowerDownPeripheral(clock_control, gating[flow].id)
  /\ gating' = [gating EXCEPT ![flow].pc = "returned"]
  /\ UNCHANGED <<family, previous_rates, pc, log, result, config_, flash,
                 system_clock, stmRates, mspVars, uart_port_, until,
                 throw_on_failure, wait, parse>>

\* Second half: the value read, with the bit set or cleared, is stored to
\* the enable register, and the call returns.
GatingStore(flow) ==
  /\ family = "stm32f10x"
  /\ flow \in DOMAIN gating
  /\ gating[flow].pc = "loaded"
  /\ clock_control' =
       [clock_control EXCEPT ![EnableRegister(gating[flow].id)] =
          IF gating[flow].up
          THEN Set(gating[flow].value, EnableBitMask(gating[flow].id))
          ELSE Clear(gating[flow].value, EnableBitMask(gating[flow].id))]
  /\ gating' = [gating EXCEPT ![flow].pc = "returned"]
  /\ UNCHANGED <<family, previous_rates, pc, log, result, config_, flash,
                 system_clock, stmRates, mspVars, uart_port_, until,
                 throw_on_failure, wait, parse>>

\* msp432p401r::SystemController::IsPeripheralPoweredUp: `return false;`
MspIsPeripheralPoweredUpCall ==
  /\ family = "msp432p401r"
  /\ pc \in {"idle", "done"}
  /\ result = NoResult
  /\ \E device_id \in 0 .. MaxDeviceId :
       result' = [op |-> "IsPeripheralPoweredUp", id |-> device_id,
                  value |-> BoolValue(FALSE), index |-> NoIndex]
  /\ UNCHANGED <<family, previous_rates, driverVars, pc, log, stmVars, mspVars>>

PowerGatingAssertPasses == TRUE

\* Whether the fatal assertion of the msp432p401r power-gating functions
\* lets the call go on: SJ2_ASSERT_FATAL(false, ...)
PowerGatingImplemented == FALSE

\* msp432p401r::SystemController::PowerUpPeripheral
MspPowerUpPeripheralCall ==
  /\ family = "msp432p401r"
  /\ pc \in {"idle", "done"}
  /\ result = NoResult
  /\ \E device_id \in 0 .. MaxDeviceId :
       result' = [op |-> "PowerUpPeripheral", id |-> device_id,
                  value |-> 0, index |-> NoIndex]
  /\ pc' = IF PowerGatingImplemented THEN pc ELSE Halted
  /\ UNCHANGED <<family, previous_rates, driverVars, log, stmVars, mspVars>>

\* msp432p401r::SystemController::PowerDownPeripheral
MspPowerDownPeripheralCall ==
  /\ family = "msp432p401r"
  /\ pc \in {"idle", "done"}
  /\ result = NoResult
  /\ \E device_id \in 0 .. MaxDeviceId :
       result' = [op |-> "PowerDownPeripheral", id |-> device_id,
                  value |-> 0, index |-> NoIndex]
  /\ pc' = IF PowerGatingImplemented THEN pc ELSE Halted
  /\ UNCHANGED <<family, previous_rates, driverVars, log, stmVars, mspVars>>

\* GetClockRate of the controller of this behaviour.
GetClockRate(device_id) ==
  IF family = "stm32f10x" THEN StmGetClockRate(device_id)
                          ELSE MspGetClockRate(device_id)

\* The caller notes the rate of every identity and calls Initialize a second
\* time, with the configuration and the registers as the first run left
\* them.
InitializeAgain ==
  /\ pc = "done"
  /\ result = NoResult
  /\ previous_rates = NoRates
  /\ previous_rates' = [device_id \in 0 .. MaxDeviceId |-> GetClockRate(device_id)]
  /\ pc' = "idle"
  /\ UNCHANGED <<family, driverVars, log, result, stmVars, mspVars>>

\* The fields the caller rewrites between two runs of Initialize.
ReconfiguredFields ==
  IF family = "stm32f10x"
  THEN {"pll_enable", "system_clock", "pll_multiply", "pll_usb_divider",
        "ahb_divider"}
  ELSE {"master_clock_source", "master_divider", "dco_enabled",
        "dco_frequency", "reference_frequency_select"}

\* The controller holds a reference to the configuration object of the
\* caller: the caller notes the rates, rewrites up to MaxReconfiguredFields
\* fields and calls Initialize again.
Reconfigure ==
  /\ pc = "done"
  /\ result = NoResult
  /\ previous_rates = NoRates
  /\ previous_rates' = [device_id \in 0 .. MaxDeviceId |-> GetClockRate(device_id)]
  /\ pc' = "idle"
  /\ \E changed \in FieldChoices(ReconfiguredFields, MaxReconfiguredFields) \ {{}} :
       IF family = "stm32f10x"
       THEN /\ config_' \in Deviations(config_, changed,
                              [f \in DOMAIN ClockConfiguration |-> StmFieldValues(f)])
            /\ UNCHANGED clock_configuration_
       ELSE /\ clock_configuration_' \in
                 Deviations(clock_configuration_, changed,
                            [f \in DOMAIN ClockConfiguration_t |-> MspFieldValues(f)])
            /\ UNCHANGED config_
  /\ UNCHANGED <<family, driverVars, log, result, clock_control, flash,
                 system_clock, stmRates, clock_system, clock_rates_, dco, refo,
                 kPlatformHost>>

\* GetClockConfiguration of either controller: `return &config_;`
GetClockConfigurationCall ==
  /\ pc \in {"idle", "done"}
  /\ result = NoResult
  /\ result' = [op |-> "GetClockConfiguration", id |-> 0, value |-> 0,
                index |-> NoIndex]
  /\ UNCHANGED <<family, previous_rates, driverVars, pc, log, stmVars, mspVars>>

\* The CTL1 writes of one Initialize: a source select for each of
\* kAuxiliary, kMaster, kSubsystemMaster and kBackup, a divider for each of
\* the four clocks that have one.
InitializeControl1Writes ==
  Cardinality({kAuxiliary, kMaster, kSubsystemMaster, kBackup})
    + Cardinality(kAuxiliary .. kLowSpeedSubsystemMaster)

Control1Writes ==
  Cardinality({i \in DOMAIN log : log[i].op = "write" /\ log[i].reg = "CTL1"})

\* Where the control flow stands between the CTL1 write of a SetClockDivider
\* call and the end of its WaitForClockReadyStatus.
DividerCallWait ==
  [clock \in kAuxiliary .. kLowSpeedSubsystemMaster |->
     CASE clock = kAuxiliary -> "call_wait_auxiliary"
       [] clock = kMaster -> "call_wait_master"
       [] clock = kSubsystemMaster -> "call_wait_subsystem_master"
       [] clock = kLowSpeedSubsystemMaster -> "call_wait_low_speed"]

\* msp432p401r::SystemController::SetClockDivider called by a driver once
\* Initialize has returned, up to the call of WaitForClockReadyStatus.
MspSetClockDividerCall ==
  /\ result = NoResult
  /\ Control1Writes < InitializeControl1Writes + MaxDividerCalls
  /\ \E clock \in kAuxiliary .. kBackup, divider \in ClockDivider :
       SetClockDivider(clock, divider, "done",
                       IF clock \in DOMAIN DividerCallWait
                       THEN DividerCallWait[clock] ELSE Halted)

\* The WaitForClockReadyStatus that ends the call.
MspSetClockDividerReturn ==
  \E clock \in DOMAIN DividerCallWait :
    WaitForClockReadyStatus(clock, DividerCallWait[clock], "done")

\* The caller takes the value a query handed back.
Return ==
  /\ pc # Halted
  /\ result # NoResult
  /\ result' = NoResult
  /\ UNCHANGED <<family, previous_rates, driverVars, pc, log, stmVars, mspVars>>

-----------------------------------------------------------------------------
(* SerialUart::ReadUntil.  The callback handed to Wait is one action per   *)
(* call; the line delivers its bytes and the timeout elapses on their own. *)

\* The byte values that travel on the line.
Bytes == {97, 98}

\* Every sequence of 0 .. n elements of `values`.
SequencesUpTo(values, n) == UNION {[1 .. k -> values] : k \in 0 .. n}

\* uart_port_.HasData()
HasData == uart_port_.taken < uart_port_.delivered

\* The byte uart_port_.Read() hands out.
NextByte == uart_port_.stream[uart_port_.taken + 1]

\* The bytes Read() has handed out so far.
BytesRead == SubSeq(uart_port_.stream, 1, uart_port_.taken)

\* One more byte of the line arrives in the UART.
UartReceive ==
  /\ family = "serial_uart"
  /\ pc \in {"idle", "wait"}
  /\ ~(pc = "wait" /\ wait.expired)
  /\ uart_port_.delivered < Len(uart_port_.stream)
  /\ uart_port_' = [uart_port_ EXCEPT !.delivered = @ + 1]
  /\ UNCHANGED <<family, previous_rates, pc, log, result, stmVars, mspVars,
                 until, throw_on_failure, wait, parse, gating>>

\* ReadUntil up to the call of Wait: std::fill(buffer, 0) and the
\* initialisation of `until`.
ReadUntilCall ==
  /\ family = "serial_uart"
  /\ pc = "idle"
  /\ until' = [buffer          |-> [i \in DOMAIN until.buffer |-> 0],
               end             |-> until.end,
               string_length   |-> Len(until.end),
               buffer_position |-> 0,
               end_position    |-> 0,
               success         |-> FALSE]
  /\ wait' = [expired |-> FALSE, last |-> "none"]
  /\ pc' = "wait"
  /\ UNCHANGED <<family, previous_rates, log, result, stmVars, mspVars,
                 uart_port_, throw_on_failure, parse, gating>>

\* The timeout of Wait elapses.
Timeout ==
  /\ family = "serial_uart"
  /\ pc = "wait"
  /\ ~wait.expired
  /\ wait' = [wait EXCEPT !.expired = TRUE]
  /\ UNCHANGED <<family, previous_rates, pc, log, result, stmVars, mspVars,
                 uart_port_, until, throw_on_failure, parse, gating>>

\* What the comparison of the byte just read does to end_position.
EndPositionAfter(end, end_position, byte) ==
  IF byte = end[end_position + 1] THEN end_position + 1
  ELSE IF byte = end[1] THEN 1
  ELSE 0

ReadUntilReturnsPosition(u, throws) ==
  [pc |-> "done",
   result |-> [op |-> "ReadUntil", id |-> 0, value |-> u.buffer_position,
               index |-> NoIndex]]

\* ReadUntil after Wait: the position on success, else the exception or -1.
ReadUntilReturn(u, throws) ==
  IF u.success
  THEN [pc |-> "done",
        result |-> [op |-> "ReadUntil", id |-> 0, value |-> u.buffer_position,
                    index |-> NoIndex]]
  ELSE IF throws
  THEN [pc |-> "thrown",
        result |-> [op |-> "Exception(std::errc::timed_out)", id |-> 0,
                    value |-> 0, index |-> NoIndex]]
  ELSE [pc |-> "done",
        result |-> [op |-> "ReadUntil", id |-> 0, value |-> 0 - 1,
                    index |-> NoIndex]]

\* The callback taken to report the match only once the UART holds no
\* further byte.
WaitCallbackDraining ==
  /\ family = "serial_uart"
  /\ pc = "wait"
  /\ ~wait.expired
  /\ IF until.end_position >= until.string_length /\ ~HasData
     THEN LET u == [until EXCEPT !.success = TRUE]
          IN  /\ until' = u
              /\ pc' = ReadUntilReturn(u, throw_on_failure).pc
              /\ result' = ReadUntilReturn(u, throw_on_failure).result
              /\ UNCHANGED <<uart_port_, wait>>
     ELSE IF ~HasData
     THEN /\ wait' = [wait EXCEPT !.last = "no_data"]
          /\ UNCHANGED <<pc, result, uart_port_, until>>
     ELSE LET buf_pos == until.buffer_position % Len(until.buffer)
          IN  /\ uart_port_' = [uart_port_ EXCEPT !.taken = @ + 1]
              /\ until' =
                   [until EXCEPT
                      !.buffer[buf_pos + 1] = NextByte,
                      !.end_position =
                        IF until.end_position >= until.string_length
                        THEN until.end_position
                        ELSE EndPositionAfter(until.end, until.end_position,
                                              NextByte),
                      !.buffer_position = @ + 1]
              /\ wait' = [wait EXCEPT !.last = "read"]
              /\ UNCHANGED <<pc, result>>
  /\ UNCHANGED <<family, previous_rates, log, stmVars, mspVars,
                 throw_on_failure, parse, gating>>

\* Wait calls the callback before the timeout has elapsed.  When the
\* callback returns true, Wait and with it ReadUntil return.
WaitCallback ==
  /\ family = "serial_uart"
  /\ pc = "wait"
  /\ ~wait.expired
  /\ IF until.end_position >= until.string_length
     THEN LET u == [until EXCEPT !.success = TRUE]
          IN  /\ until' = u
              /\ pc' = ReadUntilReturn(u, throw_on_failure).pc
              /\ result' = ReadUntilReturn(u, throw_on_failure).result
              /\ UNCHANGED <<uart_port_, wait>>
     ELSE IF ~HasData
     THEN /\ wait' = [wait EXCEPT !.last = "no_data"]
          /\ UNCHANGED <<pc, result, uart_port_, until>>
     ELSE LET buf_pos == until.buffer_position % Len(until.buffer)
          IN  /\ uart_port_' = [uart_port_ EXCEPT !.taken = @ + 1]
              /\ until' =
                   [until EXCEPT
                      !.buffer[buf_pos + 1] = NextByte,
                      !.end_position =
                        EndPositionAfter(until.end, until.end_position, NextByte),
                      !.buffer_position = @ + 1]
              /\ wait' = [wait EXCEPT !.last = "read"]
              /\ UNCHANGED <<pc, result>>
  /\ UNCHANGED <<family, previous_rates, log, stmVars, mspVars,
                 throw_on_failure, parse, gating>>

\* Wait finds the timeout elapsed and returns; ReadUntil ends.
WaitTimedOut ==
  /\ family = "serial_uart"
  /\ pc = "wait"
  /\ wait.expired
  /\ pc' = ReadUntilReturn(until, throw_on_failure).pc
  /\ result' = ReadUntilReturn(until, throw_on_failure).result
  /\ UNCHANGED <<family, previous_rates, log, stmVars, mspVars,
                 uart_port_, until, throw_on_failure, wait, parse, gating>>

\* A caller about to call ReadUntil(buffer, end, timeout, throws) on a line
\* that will carry `stream`.  The buffer holds what earlier use left in it.
ReadUntilStart(stream, end, size, throws) ==
  /\ family = "serial_uart"
  /\ pc = "idle"
  /\ log = <<>>
  /\ result = NoResult
  /\ previous_rates = NoRates
  /\ StmUnused
  /\ MspUnused
  /\ parse = <<>>
  /\ gating = <<>>
  /\ uart_port_ = [stream |-> stream, delivered |-> 0, taken |-> 0]
  /\ until = [buffer          |-> [i \in 1 .. size |-> 98],
              end             |-> end,
              string_length   |-> 0,
              buffer_position |-> 0,
              end_position    |-> 0,
              success         |-> FALSE]
  /\ throw_on_failure = throws
  /\ wait = [expired |-> FALSE, last |-> "none"]

SerialInit ==
  \E stream \in SequencesUpTo(Bytes, MaxStreamLength),
     end \in SequencesUpTo(Bytes, MaxEndLength),
     size \in 1 .. MaxBufferSize,
     throws \in BOOLEAN :
    ReadUntilStart(stream, end, size, throws)

SerialNext ==
  \/ UartReceive
  \/ ReadUntilCall
  \/ Timeout
  \/ WaitCallback
  \/ WaitTimedOut

\* One call of ReadUntil.
SpecSerial == SerialInit /\ [][SerialNext]_vars

-----------------------------------------------------------------------------
(* Zs040::Parse.  A std::string_view is the sequence of its characters,    *)
(* or undefined once remove_prefix or remove_suffix was given a count      *)
(* larger than its size.                                                   *)

kCrLf == <<"\r", "\n">>

kResponseOk == <<"O", "K", "\r", "\n">>

kErrorPrefix == <<"E", "R", "R", "O", "R", "=">>

\* The command of the test case.
kTestCommand == <<"+", "T", "E", "S", "T">>

\* The characters the explored commands and values are made of.
CommandCharacters == {"+", "T"}

ValueCharacters == {"1", "=", "T"}

View(chars) == [defined |-> TRUE, chars |-> chars]

UndefinedView == [defined |-> FALSE, chars |-> <<>>]

\* value.starts_with(prefix)
StartsWith(chars, prefix) ==
  /\ Len(prefix) <= Len(chars)
  /\ SubSeq(chars, 1, Len(prefix)) = prefix

\* std::min(value.find_first_not_of(accepted), value.size()): the number of
\* leading characters that occur somewhere in `accepted`.
LeadingCount(chars, accepted) ==
  LET others == {i \in DOMAIN chars :
                   chars[i] \notin {accepted[k] : k \in DOMAIN accepted}}
  IN  IF others = {} THEN Len(chars)
      ELSE (CHOOSE i \in others : \A j \in others : i <= j) - 1

\* value.size() - value.find(pattern) in size_t arithmetic: find gives npos,
\* the largest size_t, when the pattern does not occur, and the difference
\* wraps to size + 1.
TrailingCount(chars, pattern) ==
  LET found == {i \in 0 .. (Len(chars) - Len(pattern)) :
                  SubSeq(chars, i + 1, i + Len(pattern)) = pattern}
  IN  IF found = {} THEN Len(chars) + 1
      ELSE Len(chars) - (CHOOSE i \in found : \A j \in found : i <= j)

\* value.remove_prefix(n)
RemovePrefix(view, n) ==
  IF view.defined /\ n <= Len(view.chars)
  THEN View(SubSeq(view.chars, n + 1, Len(view.chars)))
  ELSE UndefinedView

\* value.remove_suffix(n)
RemoveSuffix(view, n) ==
  IF view.defined /\ n <= Len(view.chars)
  THEN View(SubSeq(view.chars, 1, Len(view.chars) - n))
  ELSE UndefinedView

\* Zs040::Parse(buffer, command, cr_lf, check_for_ok)
Parse(buffer, command, cr_lf, check_for_ok) ==
  LET value0 == View(buffer)
      error1 == RemovePrefix(value0, LeadingCount(value0.chars, kErrorPrefix))
      value1 == IF StartsWith(buffer, kErrorPrefix)
                THEN RemoveSuffix(error1, TrailingCount(error1.chars, cr_lf))
                ELSE value0
      command2 == RemovePrefix(value1, LeadingCount(value1.chars, command))
      value2 == IF command # <<>>
                THEN RemovePrefix(command2, LeadingCount(command2.chars, <<"=">>))
                ELSE value1
      value3 == IF check_for_ok
                THEN RemoveSuffix(value2, TrailingCount(value2.chars, kResponseOk))
                ELSE value2
  IN  RemoveSuffix(value3, TrailingCount(value3.chars, cr_lf))

\* What the caller gets: the characters of the view, or, for an undefined
\* view, nothing or anything of the buffer.
ParseOutcomes(view, buffer) ==
  IF view.defined
  THEN {[op |-> "Parse", id |-> 0, value |-> view.chars, index |-> NoIndex]}
  ELSE {[op |-> "Parse: undefined view", id |-> 0, value |-> chars,
         index |-> NoIndex] : chars \in {<<>>, buffer}}

ParseCall ==
  /\ family = "zs040"
  /\ pc = "idle"
  /\ result' \in ParseOutcomes(Parse(parse.buffer, parse.command, parse.cr_lf,
                                     parse.check_for_ok), parse.buffer)
  /\ pc' = "done"
  /\ UNCHANGED <<family, previous_rates, log, stmVars, mspVars, driverVars>>

\* The caller drops the view and is ready for the next response.
ParseDone ==
  /\ family = "zs040"
  /\ pc = "done"
  /\ result' = NoResult
  /\ pc' = "parsed"
  /\ UNCHANGED <<family, previous_rates, log, stmVars, mspVars, driverVars>>

\* A caller about to parse the response `buffer` to `command`.
ParseStart(buffer, command, cr_lf, check_for_ok) ==
  /\ family = "zs040"
  /\ pc = "idle"
  /\ log = <<>>
  /\ result = NoResult
  /\ previous_rates = NoRates
  /\ StmUnused
  /\ MspUnused
  /\ uart_port_ = <<>>
  /\ until = <<>>
  /\ throw_on_failure = FALSE
  /\ wait = <<>>
  /\ gating = <<>>
  /\ parse = [buffer |-> buffer, command |-> command, cr_lf |-> cr_lf,
              check_for_ok |-> check_for_ok]

\* The documented response formats:
\*   1. <command>=<value>\r\n      2. <command>=<value>\r\nOK\r\n
\*   3. <value>\r\n                4. OK\r\n
Response(format, command, value) ==
  CASE format = 1 -> command \o <<"=">> \o value \o kCrLf
    [] format = 2 -> command \o <<"=">> \o value \o kCrLf \o kResponseOk
    [] format = 3 -> value \o kCrLf
    [] format = 4 -> kResponseOk

\* The commands and the values explored.
Commands ==
  SequencesUpTo(CommandCharacters, MaxCommandLength) \cup {kTestCommand}

Values == SequencesUpTo(ValueCharacters, MaxValueLength)

\* A response of one of the documented formats, about to be parsed with or
\* without the check for OK.
ParseInit ==
  \E format \in 1 .. 4, command \in Commands, value \in Values,
     check_for_ok \in BOOLEAN :
    ParseStart(Response(format, command, value), command, kCrLf, check_for_ok)

ParseNext ==
  \/ ParseCall
  \/ ParseDone

\* One call of Parse.
SpecParse == ParseInit /\ [][ParseNext]_vars

-----------------------------------------------------------------------------
(* Specifications.                                                         *)

StmInit ==
  \E base \in StmBaseScenarios,
     changed \in FieldChoices(DOMAIN ClockConfiguration \cup {"registers"},
                              MaxDeviations) :
    \E scenario \in StmScenarios(base, changed) : StmStart(scenario)

MspInit ==
  \E base \in MspBaseScenarios,
     changed \in FieldChoices(DOMAIN ClockConfiguration_t
                                \cup {"registers", "host"}, MaxDeviations) :
    \E scenario \in MspScenarios(base, changed) : MspStart(scenario)

StmNext ==
  \/ StmInitialize
  \/ StmHardware

MspNext ==
  \/ MspInitialize
  \/ HwClockReady

\* stm32f10x booting: Initialize against the RCC hardware.
SpecStm == StmInit /\ [][StmNext]_vars

\* msp432p401r booting: Initialize against the clock system hardware.
SpecMsp == MspInit /\ [][MspNext]_vars

Init == StmInit \/ MspInit

Next == StmNext \/ MspNext

\* Either controller booting.
Spec == Init /\ [][Next]_vars

\* The scenarios in which the query interface is exercised: the base
\* configurations against every register file of the family.
QueryInit ==
  \/ \E base \in StmBaseScenarios, registers \in StmScenarioValues("registers") :
       StmStart([base EXCEPT !.registers = registers])
  \/ \E base \in MspBaseScenarios, registers \in MspScenarioValues("registers"),
        host \in BOOLEAN :
       MspStart([base EXCEPT !.registers = registers, !.host = host])

QueryNext ==
  \/ StmNext
  \/ MspNext
  \/ StmGetClockRateCall
  \/ MspGetClockRateCall
  \/ StmIsPeripheralPoweredUpCall
  \/ Return

\* Either controller with drivers querying it before and after Initialize.
SpecQuery == QueryInit /\ [][QueryNext]_vars

\* Initialize is straight-line code on the only control flow there is, so
\* it takes its next step whenever it can; a started oscillator, PLL or
\* clock switch signals readiness after a finite time.
Scheduling ==
  /\ WF_vars(StmInitialize \/ MspInitialize)
  /\ WF_vars(StmHardware \/ HwClockReady)

\* Either controller booting from a base configuration, run to its end.
SpecBoot == QueryInit /\ [][Next]_vars /\ Scheduling

\* The scenarios that differ from a base scenario in what decides whether
\* the selected system clock source runs.
SystemClockInit ==
  \E base \in StmBaseScenarios,
     changed \in FieldChoices({"system_clock", "pll_enable", "pll_source",
                               "high_speed_external", "registers"},
                              MaxDeviations) :
    \E scenario \in StmScenarios(base, changed) : StmStart(scenario)

\* The msp432p401r scenarios that differ from a base scenario in what
\* decides whether Initialize is let through and whether it has to wait.
ClockSourceInit ==
  \E base \in MspBaseScenarios,
     changed \in FieldChoices({"auxiliary_clock_source", "master_clock_source",
                               "backup_clock_source", "dco_enabled",
                               "dco_frequency", "reference_frequency_select",
                               "registers", "host"},
                              MaxSourceDeviations) :
    \E scenario \in MspScenarios(base, changed) : MspStart(scenario)

\* Either controller booting, run to its end, to a fatal assertion or to
\* the poll it cannot leave.
SpecTermination ==
  (SystemClockInit \/ ClockSourceInit) /\ [][Next]_vars /\ Scheduling

\* stm32f10x booting, run to its end or to the poll it cannot leave.
SpecStmBoot == SystemClockInit /\ [][StmNext]_vars /\ Scheduling

RerunInit ==
  \/ \E base \in StmBaseScenarios,
        changed \in FieldChoices(DOMAIN ClockConfiguration \cup {"registers"},
                                 MaxRerunDeviations) :
       \E scenario \in StmScenarios(base, changed) : StmStart(scenario)
  \/ \E base \in MspBaseScenarios,
        changed \in FieldChoices(DOMAIN ClockConfiguration_t
                                   \cup {"registers", "host"},
                                 MaxRerunDeviations) :
       \E scenario \in MspScenarios(base, changed) : MspStart(scenario)

\* Either controller booting, with Initialize called a second time.
SpecRerun == RerunInit /\ [][Next \/ InitializeAgain]_vars

\* Either controller booting, reconfigured by the caller and booting again.
SpecReconfigure == RerunInit /\ [][Next \/ Reconfigure]_vars

\* The scenarios in which the whole interface is exercised: the base
\* configurations, on the msp432p401r with every clock already stable.
OperationsInit ==
  \/ \E base \in StmBaseScenarios, registers \in StmScenarioValues("registers") :
       StmStart([base EXCEPT !.registers = registers])
  \/ \E base \in MspBaseScenarios, host \in BOOLEAN :
       MspStart([base EXCEPT !.registers = "ready", !.host = host])

OperationsNext ==
  \/ StmNext
  \/ MspInitialize
  \/ StmGetClockRateCall
  \/ MspGetClockRateCall
  \/ GetClockConfigurationCall
  \/ StmIsPeripheralPoweredUpCall
  \/ StmPowerUpPeripheralCall
  \/ StmPowerDownPeripheralCall
  \/ MspIsPeripheralPoweredUpCall
  \/ MspPowerUpPeripheralCall
  \/ MspPowerDownPeripheralCall
  \/ MspSetClockDividerCall
  \/ MspSetClockDividerReturn
  \/ Return

\* Either controller with drivers using every operation of its interface
\* before and after Initialize.
SpecOperations == OperationsInit /\ [][OperationsNext]_vars

\* Every enable bit of the enumerated identities of a group set.
RECURSIVE AllPoweredUp(_)
AllPoweredUp(ids) ==
  IF ids = {} THEN 0
  ELSE LET device_id == CHOOSE i \in ids : TRUE
       IN  Set(AllPoweredUp(ids \ {device_id}), EnableBitMask(device_id))

\* The enable register contents a power-gating call can find: those of the
\* register file, every peripheral gated off, and every enumerated
\* peripheral powered up.
EnableContents(rcc) ==
  {rcc,
   [rcc EXCEPT !.AHBENR = 0, !.APB1ENR = 0, !.APB2ENR = 0],
   [rcc EXCEPT !.AHBENR =
                 AllPoweredUp({i \in Peripherals : EnableIndex(i) = 0}),
               !.APB1ENR =
                 AllPoweredUp({i \in Peripherals : EnableIndex(i) = 1}),
               !.APB2ENR =
                 AllPoweredUp({i \in Peripherals : EnableIndex(i) = 2})]}

\* The scenarios in which power gating is exercised.
GatingInit ==
  \/ \E base \in StmBaseScenarios, registers \in StmScenarioValues("registers") :
       \E rcc \in EnableContents(StmRegisterFile(registers).rcc) :
         StmStartFrom([base EXCEPT !.registers = registers], rcc)
  \/ \E base \in MspBaseScenarios, registers \in MspScenarioValues("registers") :
       MspStart([base EXCEPT !.registers = registers])

GatingNext ==
  \/ StmPowerUpPeripheralCall
  \/ StmPowerDownPeripheralCall
  \/ StmIsPeripheralPoweredUpCall
  \/ MspPowerUpPeripheralCall
  \/ MspPowerDownPeripheralCall
  \/ MspIsPeripheralPoweredUpCall
  \/ Return

\* Either controller with drivers gating peripherals.
SpecGating == GatingInit /\ [][GatingNext]_vars

\* The target frequencies around the limits of the DCO ranges, from below
\* 1 MHz to above 48 MHz, and the centre of every range.
DcoTargets ==
  {MHz(limit) + kHz(offset) :
     limit \in {1, 2, 4, 8, 16, 32, 48},
     offset \in (0 - MaxTargetOffset) .. MaxTargetOffset}
    \cup {DcoCenterFrequency(select) : select \in 0 .. 4}

\* The default configuration and the one without the DCO, with the DCO
\* switched on or off and asked for one of the target frequencies.
DcoInit ==
  \E base \in MspBaseScenarios, target \in DcoTargets, enabled \in BOOLEAN,
     registers \in MspScenarioValues("registers"), host \in BOOLEAN :
    MspStart([base EXCEPT !.dco_frequency = target, !.dco_enabled = enabled,
                          !.registers = registers, !.host = host])

\* msp432p401r booting with the DCO asked for the frequencies at the limits
\* of its ranges.
SpecDco == DcoInit /\ [][MspNext]_vars

\* The scenarios in which two control flows gate peripherals.
InterleavingInit ==
  \E base \in StmBaseScenarios, registers \in StmScenarioValues("registers") :
    \E rcc \in EnableContents(StmRegisterFile(registers).rcc) :
      StmStartFrom([base EXCEPT !.registers = registers], rcc)

InterleavingNext ==
  \E flow \in Flows : GatingLoad(flow) \/ GatingStore(flow)

\* stm32f10x with two control flows each making one power-gating call, with
\* no arbitration between them.
SpecInterleaving == InterleavingInit /\ [][InterleavingNext]_vars

-----------------------------------------------------------------------------
(* Properties.                                                             *)

Stm == family = "stm32f10x"

Msp == family = "msp432p401r"

IsWrite(entry, regs) == entry.op = "write" /\ entry.reg \in regs

IsKeyWrite(entry, key) ==
  IsWrite(entry, {"KEY"}) /\ Extract(entry.val, KeyRegister.kCsKey) = key

\* The number of writes to `reg` in the log.
RECURSIVE WritesTo(_, _)
WritesTo(reg, n) ==
  IF n = 0 THEN 0
  ELSE WritesTo(reg, n - 1) + (IF IsWrite(log[n], {reg}) THEN 1 ELSE 0)

\* C1: on msp432p401r every write to CTL0, CTL1 or CLKEN is immediately
\* preceded by a write of the unlock key 0x695A to KEY and immediately
\* followed by a write of the lock key 0x0000 to KEY.
C1_ControlWritesBracketed ==
  Msp =>
    \A i \in 1 .. Len(log) :
      IsWrite(log[i], {"CTL0", "CTL1", "CLKEN"}) =>
        /\ i > 1
        /\ IsKeyWrite(log[i - 1], kUnlockKey)
        /\ i < Len(log)
        /\ IsKeyWrite(log[i + 1], kLockKey)

\* The documented stm32f10x arithmetic, written from the clock tree.
ExpectedPllInput ==
  (kPllHighSpeedInternal :> MHz(4))
    @@ (kPllHighSpeedExternal :> config_.high_speed_external)
    @@ (kPllHighSpeedExternalDividedBy2 :> config_.high_speed_external \div 2)

ExpectedPllRate == ExpectedPllInput[config_.pll_source] * (config_.pll_multiply + 2)

ExpectedSystemClock ==
  (kSelectHighSpeedInternal :> MHz(8))
    @@ (kSelectHighSpeedExternal :> config_.high_speed_external)
    @@ (kSelectPll :> ExpectedPllRate)

ExpectedAhbDivisor ==
  (0 :> 1) @@ (8 :> 2) @@ (9 :> 4) @@ (10 :> 8) @@ (11 :> 16) @@ (12 :> 64)
    @@ (13 :> 128) @@ (14 :> 256) @@ (15 :> 512)

ExpectedApbDivisor == (0 :> 1) @@ (4 :> 2) @@ (5 :> 4) @@ (6 :> 8) @@ (7 :> 16)

ExpectedAhbRate ==
  ExpectedSystemClock[config_.system_clock] \div ExpectedAhbDivisor[config_.ahb_divider]

ExpectedApb1Rate == ExpectedAhbRate \div ExpectedApbDivisor[config_.apb1_divider]

ExpectedApb2Rate == ExpectedAhbRate \div ExpectedApbDivisor[config_.apb2_divider]

ExpectedStmRate(id) ==
  CASE id = kFlitf -> MHz(8)
    [] id \in {kCpu, kSystemTimer} -> ExpectedAhbRate
    [] id \in Apb1Timers ->
         IF config_.apb1_divider = 0 THEN ExpectedApb1Rate
         ELSE 2 * ExpectedApb1Rate
    [] id \in Apb2Timers ->
         IF config_.apb2_divider = 0 THEN ExpectedApb2Rate
         ELSE 2 * ExpectedApb2Rate
    [] id \in Adcs -> ExpectedApb2Rate \div (2 * (config_.adc_divider + 1))
    [] OTHER ->
         IF id \in kAHB .. (kAPB1 - 1) THEN ExpectedAhbRate
         ELSE IF id \in kAPB1 .. (kAPB2 - 1) THEN ExpectedApb1Rate
         ELSE ExpectedApb2Rate

\* C2: once stm32f10x Initialize has completed, GetClockRate of every
\* identity of the AHB, APB1 and APB2 groups and of kCpu and kSystemTimer
\* equals the documented arithmetic on the configured source (kUsb and kI2s,
\* which are fed by the PLL, are the subject of C3).
C2_StmRatesFollowArithmetic ==
  (Stm /\ pc = "done") =>
    \A id \in Peripherals \ {kUsb, kI2s} :
      StmGetClockRate(id) = ExpectedStmRate(id)

\* Scenario 2: HSE 8 MHz, PLL from HSE times 9, system clock = PLL gives
\* kCpu = 72 MHz, and the APB1 domain divided by 2 reads 36 MHz.
C2_Witness ==
  /\ Stm
  /\ pc = "done"
  /\ [config_ EXCEPT !.apb1_divider = 0] = Pll72MHz
  /\ config_.apb1_divider = 4
  /\ StmGetClockRate(kCpu) = MHz(72)
  /\ StmGetClockRate(kAPB1 + 17) = MHz(36)
  /\ StmGetClockRate(kTimer2) = MHz(72)

\* C3: with pll.enable true the PLL rate is input x (stored code + 2) from
\* the PLL ready poll on; after Initialize GetClockRate(kI2s) is that rate
\* and GetClockRate(kUsb) is that rate for kDivideBy1 and two thirds of it
\* for kDivideBy1Point5.
C3_PllRate ==
  (Stm /\ config_.pll_enable) =>
    /\ pc \in {"step6", "step7_1", "step7_2", "step7_2_wait", "step7_3",
               "step8", "done"} => pll_clock_rate_ = ExpectedPllRate
    /\ pc = "done" =>
         /\ StmGetClockRate(kI2s) = ExpectedPllRate
         /\ StmGetClockRate(kUsb) =
              (IF config_.pll_usb_divider = kUsbDivideBy1
               THEN ExpectedPllRate ELSE (2 * ExpectedPllRate) \div 3)

\* HSE 8 MHz halved, stored code 0b1110 (x16): 64 MHz, USB at two thirds.
C3_Witness ==
  /\ Stm
  /\ pc = "done"
  /\ config_.pll_enable
  /\ config_.pll_source = kPllHighSpeedExternalDividedBy2
  /\ config_.high_speed_external = MHz(8)
  /\ config_.pll_multiply = 14
  /\ config_.pll_usb_divider = kUsbDivideBy1Point5
  /\ StmGetClockRate(kI2s) = MHz(64)
  /\ 3 * StmGetClockRate(kUsb) + 2 = MHz(128)

\* The documented msp432p401r oscillator frequencies.
ExpectedOscillatorRate ==
  (kLowFrequency :> 32768) @@ (kVeryLowFrequency :> 9400)
    @@ (kReference :>
          (IF clock_configuration_.reference_frequency_select = 0
           THEN 32768 ELSE 128000))
    @@ (kDigitallyControlled :> clock_configuration_.dco_frequency)
    @@ (kModule :> 25000000) @@ (kHighFrequency :> 48000000)

ExpectedMspRate(source, divider) ==
  ExpectedOscillatorRate[source] \div (2 ^ divider)

\* C4: after msp432p401r Initialize, ACLK, MCLK, HSMCLK and SMCLK read the
\* frequency of their configured source divided by 2^(divider code), the
\* low-speed subsystem clock using the subsystem master source; BCLK reads
\* its source undivided and the reference clock reads the REFO frequency.
C4_MspRatesFollowSource ==
  (Msp /\ pc = "done") =>
    LET config == clock_configuration_
    IN  /\ MspGetClockRate(kAuxiliary) =
             ExpectedMspRate(config.auxiliary_clock_source,
                             config.auxiliary_divider)
        /\ MspGetClockRate(kMaster) =
             ExpectedMspRate(config.master_clock_source, config.master_divider)
        /\ MspGetClockRate(kSubsystemMaster) =
             ExpectedMspRate(config.subsystem_master_clock_source,
                             config.subsystem_master_divider)
        /\ MspGetClockRate(kLowSpeedSubsystemMaster) =
             ExpectedMspRate(config.subsystem_master_clock_source,
                             config.subsystem_master_low_speed_divider)
        /\ MspGetClockRate(kBackup) =
             ExpectedOscillatorRate[config.backup_clock_source]
        /\ MspGetClockRate(kReferenceClock) = ExpectedOscillatorRate[kReference]

\* Scenario 3: the master clock on a 24 MHz DCO with divider 1 reads 24 MHz
\* while the subsystem master clock, divided by 4, reads 6 MHz.
C4_Witness ==
  /\ Msp
  /\ pc = "done"
  /\ clock_configuration_.dco_enabled
  /\ clock_configuration_.dco_frequency = MHz(24)
  /\ clock_configuration_.master_clock_source = kDigitallyControlled
  /\ clock_configuration_.master_divider = 0
  /\ clock_configuration_.subsystem_master_divider = 2
  /\ MspGetClockRate(kMaster) = MHz(24)
  /\ MspGetClockRate(kSubsystemMaster) = MHz(6)

\* C5: after Initialize every clock whose source the configuration did not
\* enable reads 0: kUsb and kI2s when pll.enable is false (stm32f10x), and
\* every clock sourced from the DCO when dco.enabled is false (msp432p401r).
C5_UnenabledSourcesReadZero ==
  /\ (Stm /\ pc = "done" /\ ~config_.pll_enable) =>
       (StmGetClockRate(kUsb) = 0 /\ StmGetClockRate(kI2s) = 0)
  /\ (Msp /\ pc = "done" /\ ~clock_configuration_.dco_enabled) =>
       /\ clock_configuration_.master_clock_source = kDigitallyControlled =>
            MspGetClockRate(kMaster) = 0
       /\ clock_configuration_.subsystem_master_clock_source =
            kDigitallyControlled =>
            (MspGetClockRate(kSubsystemMaster) = 0
               /\ MspGetClockRate(kLowSpeedSubsystemMaster) = 0)

\* A stm32f10x configuration that selects a source it leaves disabled.
SelectsDisabledSource(config) ==
  \/ config.system_clock = kSelectPll /\ ~config.pll_enable
  \/ config.system_clock = kSelectHighSpeedExternal
       /\ config.high_speed_external = 0
  \/ config.pll_enable
       /\ config.pll_source \in {kPllHighSpeedExternal,
                                 kPllHighSpeedExternalDividedBy2}
       /\ config.high_speed_external = 0
  \/ config.rtc_source = kRtcLowSpeedExternal /\ config.low_speed_external = 0

\* C6: stm32f10x Initialize never returns normally, with a populated rate
\* table, from a configuration that selects a source the same configuration
\* leaves disabled.
C6_DisabledSourceNeverAccepted ==
  (Stm /\ SelectsDisabledSource(config_)) => pc # "done"

AuxiliarySourceLegal ==
  clock_configuration_.auxiliary_clock_source
    \in {kLowFrequency, kVeryLowFrequency, kReference}

BackupSourceLegal ==
  clock_configuration_.backup_clock_source \in {kLowFrequency, kReference}

\* C7: in msp432p401r Initialize an illegal auxiliary or backup clock source
\* halts the system at the SetClockSource call of that clock: control never
\* gets past it, and CTL1 is not written for that clock (no CTL1 write at
\* all for the auxiliary clock, which is the first; at most the three writes
\* of the earlier clocks, with the backup select bit untouched, for the
\* backup clock).
C7_IllegalSourceIsFatal ==
  /\ (Msp /\ ~AuxiliarySourceLegal) =>
       /\ pc \in {"idle", "configure_reference", "source_auxiliary", Halted}
       /\ WritesTo("CTL1", Len(log)) = 0
  /\ (Msp /\ AuxiliarySourceLegal /\ ~BackupSourceLegal) =>
       /\ pc \in {"idle", "configure_reference", "source_auxiliary",
                  "source_master", "source_subsystem", "source_backup", Halted}
       /\ WritesTo("CTL1", Len(log)) <= 3
       /\ \A i \in 1 .. Len(log) :
            IsWrite(log[i], {"CTL1"}) =>
              Extract(log[i].val, Control1Register.kBackupClockSourceSelect) =
                Extract(MspRegisterFile("ready").CTL1, Control1Register.kBackupClockSourceSelect)

\* The backup clock is asked to run from the DCO, whose code would fit the
\* one-bit select field as 1: the system halts after the three earlier
\* source writes.
C7_Witness ==
  /\ Msp
  /\ pc = Halted
  /\ AuxiliarySourceLegal
  /\ clock_configuration_.backup_clock_source = kDigitallyControlled
  /\ WritesTo("CTL1", Len(log)) = 3

\* C8: a DCO target frequency outside 1 MHz .. 48 MHz is fatal for every
\* configuration: Initialize writes no CTL0 and never completes.
C8_DcoOutOfRangeIsFatal ==
  (Msp /\ (clock_configuration_.dco_frequency < MHz(1)
             \/ clock_configuration_.dco_frequency > MHz(48))) =>
    /\ pc # "done"
    /\ WritesTo("CTL0", Len(log)) = 0

\* An identity past the last valid identity of the family.
PastLastIdentity(id) ==
  \/ Stm /\ id > kI2s
  \/ Msp /\ id >= kClockPeripheralCount

\* C9: a GetClockRate call with an identity past the family's last valid
\* identity hands back 0 Hz, takes no fatal path and touches no register, in
\* every state of the controller.
C9_PastLastIdentityReadsZero ==
  [][(result'.op = "GetClockRate" /\ result.op = "none"
        /\ PastLastIdentity(result'.id)) =>
       /\ result'.value = 0
       /\ result'.index = NoIndex
       /\ pc' = pc
       /\ log' = log
       /\ clock_control' = clock_control
       /\ flash' = flash
       /\ clock_system' = clock_system]_vars

\* One past kI2s on a stm32f10x running at 72 MHz, and identity 10 on
\* msp432p401r, would witness the claim; this is the former.
C9_Witness ==
  /\ Stm
  /\ pc = "done"
  /\ ahb_clock_rate_ = MHz(72)
  /\ result.op = "GetClockRate"
  /\ result.id = kI2s + 1
  /\ result.value = 0

\* C10: IsPeripheralPoweredUp with a device_id >= 96 never indexes the
\* enable table, which has three entries, and hands back false.
C10_OutOfRangeIsNotPoweredUp ==
  (Stm /\ result.op = "IsPeripheralPoweredUp" /\ result.id >= kBeyond) =>
    /\ result.value = 0
    /\ result.index = NoIndex

\* The identities of the AHB, APB1 and APB2 groups.
GroupIdentities == {i \in Peripherals : InEnableTable(i)}

\* C11: on the stm32f10x, for every identity of the AHB, APB1 and APB2
\* groups and whatever the enable registers hold, IsPeripheralPoweredUp(id)
\* is true immediately after PowerUpPeripheral(id) and false immediately
\* after PowerDownPeripheral(id).
C11_GatingReadsBack ==
  Stm =>
    /\ \A device_id \in GroupIdentities :
         /\ IsPeripheralPoweredUp(PowerUpPeripheral(clock_control, device_id),
                                  device_id)
         /\ ~IsPeripheralPoweredUp(PowerDownPeripheral(clock_control, device_id),
                                   device_id)
    /\ result.id \in GroupIdentities =>
         /\ result.op = "PowerUpPeripheral" =>
              EnableBitReads(result.id) = {1}
         /\ result.op = "PowerDownPeripheral" =>
              EnableBitReads(result.id) = {0}

\* PowerDownPeripheral has just cleared a bit that the register file held
\* set, and PowerUpPeripheral a bit that it held clear.
C11_Witness ==
  /\ Stm
  /\ result.op = "PowerDownPeripheral"
  /\ result.id = kAPB1 + 17
  /\ ~IsPeripheralPoweredUp(clock_control, kAPB1 + 17)
  /\ IsPeripheralPoweredUp(clock_control, kAPB1 + 28)
  /\ IsPeripheralPoweredUp(clock_control, kAHB + 0)
  /\ clock_control.AHBENR = StmRegisterFile("reset").rcc.AHBENR + 1

\* A power-gating call on device_id is taking place in this step.
GatingCallOn(device_id) ==
  /\ Stm
  /\ result = NoResult
  /\ result'.op \in {"PowerUpPeripheral", "PowerDownPeripheral"}
  /\ result'.id = device_id

\* The step leaves every RCC bit alone except bit (device_id mod 32) of
\* enable register (device_id div 32), which has to be a register of the
\* table.
OnlyOwnBitChanges(device_id) ==
  /\ InEnableTable(device_id)
  /\ \A r \in DOMAIN clock_control, b \in 0 .. (kBits - 2) :
       (InEnableTable(device_id)
          /\ r = enable[EnableIndex(device_id) + 1]
          /\ b = EnableBitPosition(device_id))
       \/ Read(clock_control'[r], CreateMaskFromRange(b, b))
            = Read(clock_control[r], CreateMaskFromRange(b, b))

\* C12: on the stm32f10x, PowerUpPeripheral(id) and PowerDownPeripheral(id)
\* change only bit (id mod 32) of enable register (id div 32), so the bit of
\* every other identity keeps the value its own last call gave it, and no
\* two enumerated identities share a (register, bit) pair.
C12_GatingChangesOnlyOwnBit ==
  [][/\ \A device_id \in Peripherals :
          GatingCallOn(device_id) => OnlyOwnBitChanges(device_id)
     /\ \A a, b \in Peripherals :
          a # b => <<EnableIndex(a), EnableBitPosition(a)>>
                     # <<EnableIndex(b), EnableBitPosition(b)>>]_vars

\* The frame condition of C12 for the calls made on identities of the AHB,
\* APB1 and APB2 groups.
GatingFrameInTable ==
  [][\A device_id \in GroupIdentities :
       GatingCallOn(device_id) => OnlyOwnBitChanges(device_id)]_vars

\* C13: on the msp432p401r, IsPeripheralPoweredUp returns false for every
\* identity, PowerUpPeripheral and PowerDownPeripheral raise a fatal
\* assertion for every identity, and none of the three reads or writes a
\* register.
C13_MspGatingUnsupported ==
  [][(Msp /\ result = NoResult
          /\ result'.op \in {"IsPeripheralPoweredUp", "PowerUpPeripheral",
                             "PowerDownPeripheral"})
       => /\ result'.op = "IsPeripheralPoweredUp" =>
               result'.value = 0 /\ pc' = pc
          /\ result'.op \in {"PowerUpPeripheral", "PowerDownPeripheral"} =>
               pc' = Halted
          /\ result'.index = NoIndex
          /\ log' = log
          /\ clock_system' = clock_system]_vars

\* PowerDownPeripheral has been called on the msp432p401r and the system
\* has halted in its assertion.
C13_Witness ==
  /\ Msp
  /\ result.op = "PowerDownPeripheral"
  /\ result.id = kBackup
  /\ pc = Halted

\* What the msp432p401r select field of `clock` holds.
SelectedSource(clock) == Extract(clock_system.CTL1, PrimaryClockSelectMask(clock))

\* Initialize with the default-constructed configuration meets no fatal
\* error and ends in the power-on-reset clock state.  stm32f10x: the system
\* clock select stays on the internal oscillator, the external oscillator
\* and PLL enable bits are clear and GetClockRate(kCpu) is 8 MHz.
\* msp432p401r: master and subsystem master run from the DCO at 3 MHz,
\* auxiliary and backup from the reference oscillator at 32768 Hz, and the
\* clock select and divider register holds its power-on-reset value.
DefaultConfigurationIsResetState ==
  /\ (Stm /\ config_ = ClockConfiguration) =>
       /\ pc # Halted
       /\ Extract(clock_control.CFGR,
                  ClockConfigurationRegisters.kSystemClockSelect)
            = kSelectHighSpeedInternal \/ pc \in {"idle", "step2"}
       /\ pc = "done" =>
            /\ ~Read(clock_control.CR, ClockControlRegisters.kExternalOscEnable)
            /\ ~Read(clock_control.CR, ClockControlRegisters.kPllEnable)
            /\ StmGetClockRate(kCpu) = MHz(8)
  /\ (Msp /\ clock_configuration_ = ClockConfiguration_t) =>
       /\ pc # Halted
       /\ pc = "done" =>
            /\ SelectedSource(kMaster) = kDigitallyControlled
            /\ SelectedSource(kSubsystemMaster) = kDigitallyControlled
            /\ clock_system.CTL1 = MspRegisterFile("not_ready").CTL1
            /\ MspGetClockRate(kMaster) = MHz(3)
            /\ MspGetClockRate(kSubsystemMaster) = MHz(3)
            /\ MspGetClockRate(kAuxiliary) = 32768
            /\ MspGetClockRate(kBackup) = 32768

DefaultConfiguration ==
  \/ Stm /\ config_ = ClockConfiguration
  \/ Msp /\ clock_configuration_ = ClockConfiguration_t

C15_InitializeIsIdempotent ==
  (pc = "done" /\ previous_rates # NoRates) =>
    \A device_id \in 0 .. MaxDeviceId :
      GetClockRate(device_id) = previous_rates[device_id]

\* The second Initialize has returned with the PLL running and a rate table
\* that is not all zero.
C15_Witness ==
  /\ Stm
  /\ pc = "done"
  /\ previous_rates # NoRates
  /\ config_.pll_enable
  /\ previous_rates[kI2s] > 0
  /\ previous_rates[kCpu] > 0

\* C16: the rate table is changed by Initialize only.  GetClockRate,
\* GetClockConfiguration, IsPeripheralPoweredUp, PowerUpPeripheral,
\* PowerDownPeripheral and the msp432p401r SetClockDivider leave every rate
\* as it is; GetClockRate writes no register, and what it returns is the
\* table entry of the identity, so calls with the same identity between two
\* Initialize runs return the same value.
C16_OnlyInitializeChangesRates ==
  [][/\ ~(StmInitialize \/ MspInitialize) =>
          UNCHANGED <<stmRates, clock_rates_>>
     /\ (result = NoResult /\ result'.op = "GetClockRate") =>
          /\ UNCHANGED <<log, clock_control, flash, clock_system>>
          /\ result'.value = GetClockRate(result'.id)]_vars

\* The public SetClockDivider has halved a clock whose table entry still
\* holds the undivided rate.
C16_Witness ==
  /\ Msp
  /\ pc = "done"
  /\ Control1Writes > InitializeControl1Writes
  /\ Extract(clock_system.CTL1, DividerSelectMask(kMaster)) = 1
  /\ MspGetClockRate(kMaster) = MHz(3)
  /\ result.op = "GetClockRate"
  /\ result.id = kMaster

\* The configuration selects a system clock source that Initialize does not
\* start: the PLL while it is not enabled, or the external oscillator while
\* its frequency is given as 0.
SelectsStoppedSource ==
  /\ Stm
  /\ \/ config_.system_clock = kSelectPll /\ ~config_.pll_enable
     \/ config_.system_clock = kSelectHighSpeedExternal
          /\ config_.high_speed_external = 0

\* Initialize stands in the status poll of step 7.2, the last register
\* access being the write of the system clock select.
InStatusPoll ==
  /\ pc = "step7_2_wait"
  /\ log # <<>>
  /\ log[Len(log)].op = "write"
  /\ log[Len(log)].reg = "CFGR"
  /\ Extract(log[Len(log)].val, ClockConfigurationRegisters.kSystemClockSelect)
       = config_.system_clock

\* C17: on the stm32f10x, when the configuration selects the PLL as system
\* clock while the PLL is not enabled, or the external oscillator while
\* high_speed_external is 0, and the status field never reports a source
\* that is not running, Initialize never returns: it stays for ever in the
\* status poll that follows the system clock select write.
C17_StoppedSourceNeverReturns ==
  /\ [](SelectsStoppedSource => pc # "done")
  /\ SelectsStoppedSource ~> [](InStatusPoll)

\* Initialize stands in the status poll with the PLL selected and not
\* enabled, on registers that had the PLL running before.
C17_Witness ==
  /\ SelectsStoppedSource
  /\ InStatusPoll
  /\ config_.system_clock = kSelectPll
  /\ \E i \in DOMAIN log : log[i].op = "write" /\ log[i].reg = "CR"

Serial == family = "serial_uart"

\* The 0-based positions at which `pattern` occurs in `text`.
Occurrences(text, pattern) ==
  {i \in 0 .. (Len(text) - Len(pattern)) :
     SubSeq(text, i + 1, i + Len(pattern)) = pattern}

\* The number of bytes of `text` up to and including the first occurrence of
\* `pattern`.
ThroughFirst(text, pattern) ==
  Len(pattern) + CHOOSE i \in Occurrences(text, pattern) :
                   \A j \in Occurrences(text, pattern) : i <= j

\* The timeout did not cut the reading short: it has not elapsed, or it
\* elapsed after the whole stream had been received and read and the
\* callback had found the UART empty.
DeliveredInTime ==
  wait.expired =>
    /\ uart_port_.delivered = Len(uart_port_.stream)
    /\ uart_port_.taken = uart_port_.delivered
    /\ wait.last = "no_data"

\* C18: for every non-empty end sequence and every stream that contains it
\* and is fully delivered before the timeout, ReadUntil reports success at
\* the first occurrence of the end sequence and returns the number of bytes
\* read up to and including it, never -1.
C18_ReadUntilFindsEnd ==
  (/\ Serial
   /\ pc \in {"done", "thrown"}
   /\ until.end # <<>>
   /\ Occurrences(uart_port_.stream, until.end) # {}
   /\ DeliveredInTime)
    => /\ pc = "done"
       /\ result.value = ThroughFirst(uart_port_.stream, until.end)

\* The same for end sequences of one or two bytes, where restarting the
\* comparison at the first byte of the end sequence loses nothing.
ReadUntilFindsShortEnd ==
  (/\ Serial
   /\ pc \in {"done", "thrown"}
   /\ until.end # <<>>
   /\ Len(until.end) <= 2
   /\ Occurrences(uart_port_.stream, until.end) # {}
   /\ DeliveredInTime)
    => /\ pc = "done"
       /\ result.value = ThroughFirst(uart_port_.stream, until.end)

\* Whether `text` ends with `pattern`.
EndsWith(text, pattern) ==
  /\ Len(pattern) <= Len(text)
  /\ SubSeq(text, Len(text) - Len(pattern) + 1, Len(text)) = pattern

\* C19: if the timeout elapses before the end sequence has been matched,
\* ReadUntil never reports success: it returns -1 when throw_on_failure is
\* false and throws a timed_out exception when it is true.  Success is
\* reported only when the bytes read end with the end sequence.
C19_TimeoutIsNeverSuccess ==
  (Serial /\ pc \in {"done", "thrown"}) =>
    /\ wait.expired =>
         /\ ~until.success
         /\ throw_on_failure =>
              pc = "thrown" /\ result.op = "Exception(std::errc::timed_out)"
         /\ ~throw_on_failure =>
              pc = "done" /\ result.op = "ReadUntil" /\ result.value = 0 - 1
    /\ (pc = "done" /\ result.value >= 0) =>
         /\ ~wait.expired
         /\ until.success
         /\ EndsWith(BytesRead, until.end)

\* ReadUntil has thrown after the timeout elapsed in the middle of the end
\* sequence, with a byte of the line still unread.
C19_Witness ==
  /\ Serial
  /\ pc = "thrown"
  /\ wait.expired
  /\ until.end_position > 0
  /\ until.end_position < until.string_length
  /\ HasData

Zs040 == family = "zs040"

\* Parse was called on `buffer` with the command and the flag given, and has
\* returned.
Parsed(buffer, check_for_ok) ==
  /\ Zs040
  /\ pc = "done"
  /\ parse.buffer = buffer
  /\ parse.check_for_ok = check_for_ok

\* Parse has returned the view `chars`.
Returned(chars) ==
  /\ result.op = "Parse"
  /\ result.value = chars

\* C20: for every command c and every value v that contains no carriage
\* return or line feed, Parse(c + "=" + v + "\r\n", c, "\r\n") returns
\* exactly v.  (Stated for the non-empty commands.)
C20_ParseReturnsValue ==
  \A v \in Values :
    (Parsed(Response(1, parse.command, v), FALSE) /\ parse.command # <<>>)
      => Returned(v)

\* The case of the test: Parse("+TEST=1\r\n", "+TEST", "\r\n") is "1".
ParseTestCase ==
  (Parsed(Response(1, kTestCommand, <<"1">>), FALSE)
     /\ parse.command = kTestCommand)
    => Returned(<<"1">>)

\* Format 2: Parse(c + "=" + v + "\r\nOK\r\n", c, "\r\n", true) returns v.
ParseReturnsValueBeforeOk ==
  \A v \in Values :
    Parsed(Response(2, parse.command, v), TRUE) => Returned(v)

\* Format 3: Parse(v + "\r\n", c) returns v.
ParseReturnsBareValue ==
  \A v \in Values :
    Parsed(Response(3, parse.command, v), FALSE) => Returned(v)

\* Format 4: a response that contains only "OK\r\n" returns the empty string.
ParseReturnsEmptyForOk ==
  \A check_for_ok \in BOOLEAN :
    Parsed(kResponseOk, check_for_ok) => Returned(<<>>)

\* C21: Parse handles the other documented response formats: for every
\* command c and value v without CR/LF, Parse(c + "=" + v + "\r\nOK\r\n", c,
\* "\r\n", true) and Parse(v + "\r\n", c) return exactly v, and a response
\* that contains only "OK\r\n" returns the empty string.
C21_ParseHandlesOtherFormats ==
  /\ ParseReturnsValueBeforeOk
  /\ ParseReturnsBareValue
  /\ ParseReturnsEmptyForOk

\* The wait states the flash needs at a system clock frequency: none up to
\* 24 MHz, one up to 48 MHz, two above.
RequiredWaitStates(rate) ==
  IF rate <= MHz(24) THEN 0 ELSE IF rate <= MHz(48) THEN 1 ELSE 2

ProgrammedWaitStates == Extract(flash.ACR, kFlashLatency)

\* Initialize is about to write the configured source to the select field.
AtSelectWrite == Stm /\ pc = "step7_2"

\* The latency field matches the prospective system clock frequency at the
\* moment of the select write.
LatencyMatchesAtSelectWrite ==
  AtSelectWrite =>
    ProgrammedWaitStates = RequiredWaitStates(ExpectedSystemClock[config_.system_clock])

\* The frequency of the source the status field reports as the live clock.
LiveClock ==
  ExpectedSystemClock[Extract(clock_control.CFGR,
                              ClockConfigurationRegisters.kSystemClockStatus)]

\* From the select write on, the live clock is not faster than the
\* programmed wait states allow.
LiveClockWithinWaitStates ==
  (Stm /\ pc \in {"step7_2_wait", "step7_3", "step8", "done"})
    => RequiredWaitStates(LiveClock) <= ProgrammedWaitStates

\* C22: in stm32f10x Initialize, at the moment the system clock select field
\* is written with the configured source, the flash latency field already
\* matches the prospective system clock frequency of that source (HSI, HSE
\* or PLL), and the live clock never runs faster than the programmed wait
\* states allow.
C22_FlashLatencyBeforeSwitch ==
  /\ LatencyMatchesAtSelectWrite
  /\ LiveClockWithinWaitStates

\* The same for the one source the code adjusts the latency for: the PLL,
\* enabled by the configuration.
LatencyMatchesForPll ==
  (AtSelectWrite /\ config_.system_clock = kSelectPll /\ config_.pll_enable)
    => ProgrammedWaitStates = RequiredWaitStates(ExpectedPllRate)

\* The value a write to CFGR gives the system clock select field.
SelectWritten(entry) ==
  Extract(entry.val, ClockConfigurationRegisters.kSystemClockSelect)

\* A poll of register `reg` that has read the flag `mask` as set.
IsReadyRead(entry, reg, mask) ==
  entry.op = "read" /\ entry.reg = reg /\ Read(entry.val, mask)

\* Some access before the i-th has read the flag `mask` of `reg` as set.
ReadyReadBefore(i, reg, mask) ==
  \E j \in 1 .. (i - 1) : IsReadyRead(log[j], reg, mask)

\* C23: stm32f10x Initialize writes the system clock select field with kPll
\* only after the PLL ready flag has been read as set in the same run, and
\* with kHighSpeedExternal only after the HSE ready flag has been read as
\* set in the same run.
C23_SwitchOnlyToReadySource ==
  Stm =>
    \A i \in 1 .. Len(log) :
      IsWrite(log[i], {"CFGR"}) =>
        /\ SelectWritten(log[i]) = kSelectPll
             => ReadyReadBefore(i, "CR", ClockControlRegisters.kPllReady)
        /\ SelectWritten(log[i]) = kSelectHighSpeedExternal
             => ReadyReadBefore(i, "CR", ClockControlRegisters.kExternalOscReady)

\* The status field, the live clock, never shows a source that is not
\* running once Initialize has taken the system to the internal oscillator.
LiveClockRuns ==
  (Stm /\ pc # "idle")
    => SourceRunning(Extract(clock_control.CFGR,
                             ClockConfigurationRegisters.kSystemClockStatus))

\* A register write of a stage: the register written and the value the
\* write gives one of its fields.
StageWrite(reg, mask, value) == [reg |-> reg, mask |-> mask, value |-> value]

Optional(present, stages) == IF present THEN stages ELSE <<>>

\* Stages 1 and 2: HSI selected, the RTC registers reset, the PLL and the
\* external oscillator disabled.
BaselineWrites ==
  <<StageWrite("CFGR", ClockConfigurationRegisters.kSystemClockSelect, kSelectHighSpeedInternal),
    StageWrite("BDCR", RtcRegisters.kBackupDomainReset, 1),
    StageWrite("BDCR", RtcRegisters.kBackupDomainReset, 0),
    StageWrite("CR", ClockControlRegisters.kPllEnable, 0),
    StageWrite("CR", ClockControlRegisters.kExternalOscEnable, 0)>>

\* Stages 3 to 5: the configured oscillators, the PLL source, the PLL.
SourceWrites ==
  Optional(config_.high_speed_external # 0,
           <<StageWrite("CR", ClockControlRegisters.kExternalOscEnable, 1)>>)
    \o Optional(config_.low_speed_external # 0,
                <<StageWrite("BDCR", RtcRegisters.kLowSpeedOscEnable, 1)>>)
    \o <<StageWrite("CFGR", ClockConfigurationRegisters.kHsePreDivider,
                    BoolValue(config_.pll_source = kPllHighSpeedExternalDividedBy2)),
         StageWrite("CFGR", ClockConfigurationRegisters.kPllSource, config_.pll_source % 2)>>
    \o Optional(config_.pll_enable,
                <<StageWrite("CFGR", ClockConfigurationRegisters.kPllMul, config_.pll_multiply),
                  StageWrite("CR", ClockControlRegisters.kPllEnable, 1)>>)

\* The pre-switch flash wait-state adjustment, made for the PLL.
FlashWrites ==
  Optional(config_.system_clock = kSelectPll,
           <<StageWrite("ACR", kFlashLatency,
                        RequiredWaitStates(IF config_.pll_enable THEN ExpectedPllRate ELSE 0))>>)

DividerWrites ==
  <<StageWrite("CFGR", ClockConfigurationRegisters.kUsbPrescalar, config_.pll_usb_divider),
    StageWrite("CFGR", ClockConfigurationRegisters.kAHBDivider, config_.ahb_divider),
    StageWrite("CFGR", ClockConfigurationRegisters.kAPB1Divider, config_.apb1_divider),
    StageWrite("CFGR", ClockConfigurationRegisters.kAPB2Divider, config_.apb2_divider),
    StageWrite("CFGR", ClockConfigurationRegisters.kAdcDivider, config_.adc_divider)>>

\* The switch, then the RTC source and enable.
SwitchWrites ==
  <<StageWrite("CFGR", ClockConfigurationRegisters.kSystemClockSelect, config_.system_clock),
    StageWrite("BDCR", RtcRegisters.kRtcSourceSelect, config_.rtc_source),
    StageWrite("BDCR", RtcRegisters.kRtcEnable, BoolValue(config_.rtc_enable))>>

\* The writes of the log, in order.
RECURSIVE WritesOf(_)
WritesOf(entries) ==
  IF entries = <<>> THEN <<>>
  ELSE (IF Head(entries).op = "write" THEN <<Head(entries)>> ELSE <<>>)
         \o WritesOf(Tail(entries))

\* The writes made so far are the first of `stages`, one write per stage,
\* all of them once Initialize has returned; every write to CFGR before the
\* last three stages (the switch and the RTC) leaves HSI selected.
FollowsStages(stages) ==
  LET writes == WritesOf(log)
  IN  /\ Len(writes) <= Len(stages)
      /\ pc = "done" => Len(writes) = Len(stages)
      /\ \A k \in 1 .. Len(writes) :
           /\ writes[k].reg = stages[k].reg
           /\ Extract(writes[k].val, stages[k].mask) = stages[k].value
           /\ (k <= Len(stages) - Len(SwitchWrites) /\ writes[k].reg = "CFGR")
                => SelectWritten(writes[k]) = kSelectHighSpeedInternal

\* C24: the register writes of stm32f10x Initialize follow the stage order:
\* first HSI is selected; then the PLL and HSE enable bits are cleared,
\* before any oscillator or the PLL is enabled or the PLL source or
\* multiplier is written; the flash wait-state adjustment comes next, then
\* the USB, AHB, APB1, APB2 and ADC dividers, all written while the select
\* field still holds HSI; then the single switch to the configured source;
\* the RTC source and enable writes come after the switch.
C24_WritesFollowStageOrder ==
  Stm => FollowsStages(BaselineWrites \o SourceWrites \o FlashWrites
                         \o DividerWrites \o SwitchWrites)

\* C24, amended: as above, with the dividers written before the flash
\* wait-state adjustment: the adjustment is the last write before the
\* switch.
C24_WritesFollowCodeOrder ==
  Stm => FollowsStages(BaselineWrites \o SourceWrites \o DividerWrites
                         \o FlashWrites \o SwitchWrites)

\* A completed run that went through every stage: both oscillators and the
\* PLL enabled, the flash adjusted, the system switched to the PLL.
C24_Witness ==
  /\ Stm
  /\ pc = "done"
  /\ config_.high_speed_external # 0
  /\ config_.low_speed_external # 0
  /\ config_.pll_enable
  /\ config_.system_clock = kSelectPll
  /\ \E i \in 1 .. Len(log) : IsWrite(log[i], {"ACR"})
  /\ Len(WritesOf(log)) = Len(BaselineWrites \o SourceWrites \o DividerWrites
                             \o FlashWrites \o SwitchWrites)

\* The e-th access sets the bit `mask` of `reg`: it writes the bit as 1 after
\* a write of this run has written it as 0.
SetsBit(e, reg, mask) ==
  /\ IsWrite(log[e], {reg})
  /\ Read(log[e].val, mask)
  /\ \E d \in 1 .. (e - 1) : IsWrite(log[d], {reg}) /\ ~Read(log[d].val, mask)

\* The i-th access is a register write of a later stage: the write of the
\* PLL source selection, the first write to CFGR after the one that selects
\* HSI, or a write after it.
LaterStageWrite(i) ==
  /\ log[i].op = "write"
  /\ \E j \in 2 .. i : IsWrite(log[j], {"CFGR"})

\* The oscillator enabled by bit `enable_mask` of `reg`, configured with
\* the frequency `configured`: the bit is set if and only if the frequency
\* is not zero, and then no later stage write comes before a poll, made
\* after the bit was set, has read `ready_mask` as set.
EnabledIffConfigured(reg, enable_mask, ready_mask, configured, reached) ==
  /\ (\E e \in 1 .. Len(log) : SetsBit(e, reg, enable_mask)) => configured # 0
  /\ (reached /\ configured # 0)
       => \E e \in 1 .. Len(log) : SetsBit(e, reg, enable_mask)
  /\ \A i \in 1 .. Len(log) :
       (LaterStageWrite(i) /\ configured # 0)
         => \E e \in 1 .. (i - 1) :
              /\ SetsBit(e, reg, enable_mask)
              /\ \E j \in (e + 1) .. (i - 1) : IsReadyRead(log[j], reg, ready_mask)

\* C25: in stm32f10x Initialize the HSE (the LSE) enable bit is set if and
\* only if high_speed_external (low_speed_external) is not zero, and when
\* it is set no register write of a later stage, from the PLL source
\* selection on, happens until the ready flag of that oscillator has been
\* read as set.
C25_OscillatorsEnabledAndAwaited ==
  Stm =>
    /\ EnabledIffConfigured("CR", ClockControlRegisters.kExternalOscEnable,
                            ClockControlRegisters.kExternalOscReady,
                            config_.high_speed_external,
                            pc \notin {"idle", "step2", "step3_1"})
    /\ EnabledIffConfigured("BDCR", RtcRegisters.kLowSpeedOscEnable,
                            RtcRegisters.kLowSpeedOscReady,
                            config_.low_speed_external,
                            pc \notin {"idle", "step2", "step3_1",
                                       "step3_1_wait", "step3_2"})
    /\ pc = "done" =>
         /\ Read(clock_control.CR, ClockControlRegisters.kExternalOscEnable)
              <=> config_.high_speed_external # 0
         /\ Read(clock_control.BDCR, RtcRegisters.kLowSpeedOscEnable)
              <=> config_.low_speed_external # 0

\* A run with both oscillators configured that has reached the PLL source
\* selection after both ready flags were read as set.
C25_Witness ==
  /\ Stm
  /\ config_.high_speed_external # 0
  /\ config_.low_speed_external # 0
  /\ \E i \in 1 .. Len(log) : LaterStageWrite(i)
  /\ ReadyReadBefore(Len(log), "CR", ClockControlRegisters.kExternalOscReady)
  /\ ReadyReadBefore(Len(log), "BDCR", RtcRegisters.kLowSpeedOscReady)

\* The accesses of the log that are polls of the status field of CFGR, and
\* those that are writes to CFGR.
StatusReads == {j \in 1 .. Len(log) : log[j].op = "read" /\ log[j].reg = "CFGR"}

SelectWrites == {i \in 1 .. Len(log) : IsWrite(log[i], {"CFGR"})}

Last(indices) == CHOOSE i \in indices : \A j \in indices : j <= i

\* The last access to CFGR is a poll that has read the status field equal
\* to the configured selection, which is the selector code of the last
\* write to the select field.
StatusReadAsSelected ==
  /\ StatusReads # {}
  /\ SelectWrites # {}
  /\ Last(SelectWrites) < Last(StatusReads)
  /\ Extract(log[Last(StatusReads)].val,
             ClockConfigurationRegisters.kSystemClockStatus)
       = config_.system_clock
  /\ SelectWritten(log[Last(SelectWrites)]) = config_.system_clock

\* The rate members that Initialize derives from the system clock.
DerivedRates ==
  <<rtc_clock_rate_, usb_clock_rate_, ahb_clock_rate_, apb1_clock_rate_,
    apb2_clock_rate_, timer_apb1_clock_rate_, timer_apb2_clock_rate_,
    adc_clock_rate_>>

\* C26: stm32f10x Initialize returns only after the status field of CFGR
\* has been read equal to the configured system_clock selection, the
\* selector code written to the select field, and the rate table is
\* populated only after that.
C26_ReturnsAfterStatusRead ==
  /\ []((Stm /\ pc = "done") => StatusReadAsSelected)
  /\ [][(Stm /\ stmRates' # stmRates) => StatusReadAsSelected']_vars

\* C26, amended: as above for the return and for the rates derived from the
\* system clock; the PLL rate, which GetClockRate(kI2s) reads, is stored
\* earlier, when the PLL ready flag has been read as set.
C26_DerivedRatesAfterStatusRead ==
  /\ []((Stm /\ pc = "done") => StatusReadAsSelected)
  /\ [][(Stm /\ DerivedRates' # DerivedRates) => StatusReadAsSelected']_vars
  /\ [][(Stm /\ pll_clock_rate_' # pll_clock_rate_)
          => IsReadyRead(log'[Len(log')], "CR", ClockControlRegisters.kPllReady)]_vars

\* A run that has returned after a switch away from the internal oscillator,
\* with the rates populated.
C26_Witness ==
  /\ Stm
  /\ pc = "done"
  /\ config_.system_clock = kSelectPll
  /\ StatusReadAsSelected
  /\ ahb_clock_rate_ # 0
  /\ pll_clock_rate_ # 0

\* A msp432p401r configuration that passes the checks of Initialize and
\* selects the DCO only if it enables it.
MspSourcesEnabled(config) ==
  /\ config.auxiliary_clock_source
       \in {kLowFrequency, kVeryLowFrequency, kReference}
  /\ config.backup_clock_source \in {kLowFrequency, kReference}
  /\ config.reference_frequency_select <= 1
  /\ config.dco_enabled
       => (MHz(1) <= config.dco_frequency /\ config.dco_frequency <= MHz(48))
  /\ kDigitallyControlled \in {config.master_clock_source,
                               config.subsystem_master_clock_source}
       => config.dco_enabled

\* The selected sources are all enabled by the configuration.
SourcesEnabled ==
  \/ Stm /\ ~SelectsDisabledSource(config_)
  \/ Msp /\ MspSourcesEnabled(clock_configuration_)

\* Initialize has been entered and has neither returned nor halted.
InInitialize == (Stm \/ Msp) /\ pc \notin {"idle", "done", Halted}

\* Initialize stands in one of its busy-wait polls of a hardware status
\* flag, and the flag is not as the poll needs it.
InUnsatisfiedPoll ==
  \/ /\ Stm
     /\ \/ pc = "step3_1_wait"
             /\ ~Read(clock_control.CR, ClockControlRegisters.kExternalOscReady)
        \/ pc = "step3_2_wait"
             /\ ~Read(clock_control.BDCR, RtcRegisters.kLowSpeedOscReady)
        \/ pc = "step5_wait"
             /\ ~Read(clock_control.CR, ClockControlRegisters.kPllReady)
        \/ pc = "step7_2_wait"
             /\ Extract(clock_control.CFGR,
                        ClockConfigurationRegisters.kSystemClockStatus)
                  # config_.system_clock
  \/ /\ Msp
     /\ ~kPlatformHost
     /\ \/ pc = "wait_auxiliary" /\ ~Read(clock_system.STAT, ReadyBit(kAuxiliary))
        \/ pc = "wait_master" /\ ~Read(clock_system.STAT, ReadyBit(kMaster))
        \/ pc = "wait_subsystem"
             /\ ~Read(clock_system.STAT, ReadyBit(kSubsystemMaster))
        \/ pc = "wait_low_speed"
             /\ ~Read(clock_system.STAT, ReadyBit(kLowSpeedSubsystemMaster))

InReadyPoll == InUnsatisfiedPoll /\ pc # "step7_2_wait"

\* The rate table is as it was before the call: that of a controller never
\* initialized, or the rates the caller noted before it called again.
RatesAsBeforeCall ==
  IF previous_rates # NoRates
  THEN \A device_id \in 0 .. MaxDeviceId :
         GetClockRate(device_id) = previous_rates[device_id]
  ELSE /\ Stm => \A i \in 1 .. Len(stmRates) : stmRates[i] = 0
       /\ Msp => clock_rates_ = InitialClockRates

\* C28: if the ready flag of an oscillator, PLL or clock that Initialize has
\* enabled never becomes set, Initialize blocks in the poll of that flag: as
\* long as the flag is not set it cannot take a step, so it does not return,
\* reports no error and writes no register, and the rate table is as it was
\* before the call.
C28_BlocksWhileFlagIsDown ==
  /\ [](InReadyPoll =>
          /\ ~ENABLED (StmInitialize \/ MspInitialize \/ InitializeAgain)
          /\ result = NoResult
          /\ RatesAsBeforeCall)
  /\ [][(InReadyPoll /\ InReadyPoll')
          => UNCHANGED <<pc, log, result, stmRates, clock_rates_>>]_vars

\* The second call of Initialize stands in the poll of the HSE ready flag,
\* which the first call had seen set, with the rates of the first call.
C28_Witness ==
  /\ Stm
  /\ InReadyPoll
  /\ pc = "step3_1_wait"
  /\ previous_rates # NoRates
  /\ previous_rates[kCpu] > 0

\* The PLL output of a controller that has run Initialize once, with the
\* present configuration: nothing when the PLL is not enabled.
FreshPllRate == IF config_.pll_enable THEN ExpectedPllRate ELSE 0

\* The rate a controller never initialized before gives the identity after
\* Initialize with the present configuration.
FreshRate(id) ==
  IF Stm
  THEN CASE id = kI2s -> FreshPllRate
         [] id = kUsb -> (IF config_.pll_usb_divider = kUsbDivideBy1
                          THEN FreshPllRate ELSE (2 * FreshPllRate) \div 3)
         [] OTHER -> ExpectedStmRate(id)
  ELSE LET config == clock_configuration_
       IN  CASE id = kAuxiliary ->
                  ExpectedMspRate(config.auxiliary_clock_source, config.auxiliary_divider)
             [] id = kMaster ->
                  ExpectedMspRate(config.master_clock_source, config.master_divider)
             [] id = kSubsystemMaster ->
                  ExpectedMspRate(config.subsystem_master_clock_source,
                                  config.subsystem_master_divider)
             [] id = kLowSpeedSubsystemMaster ->
                  ExpectedMspRate(config.subsystem_master_clock_source,
                                  config.subsystem_master_low_speed_divider)
             [] id = kBackup -> ExpectedOscillatorRate[config.backup_clock_source]
             [] id = kReferenceClock -> ExpectedOscillatorRate[kReference]
             [] OTHER -> InitialClockRates[id]

RatedIdentities ==
  IF Stm THEN Peripherals ELSE 0 .. (kClockPeripheralCount - 1)

\* The rates after a run are those of a fresh controller.
RatesAreFresh ==
  \A id \in RatedIdentities : GetClockRate(id) = FreshRate(id)

\* The first run of a controller gives the fresh rates.
FirstRunIsFresh ==
  (pc = "done" /\ previous_rates = NoRates) => RatesAreFresh

\* C29: the rate table produced by Initialize is a function of the
\* configuration at the time of the call only: after a run that follows a
\* change of the configuration by the caller, the rates equal those a fresh
\* controller would produce from that configuration (on stm32f10x,
\* re-running with pll.enable changed from true to false gives
\* GetClockRate(kUsb) = GetClockRate(kI2s) = 0).
C29_RatesDependOnConfigurationOnly ==
  (pc = "done" /\ previous_rates # NoRates) => RatesAreFresh

\* The same for the msp432p401r alone.
MspRatesDependOnConfigurationOnly ==
  (Msp /\ pc = "done" /\ previous_rates # NoRates) => RatesAreFresh

\* The call has written no clock system register.
NoClockSystemWrite ==
  \A i \in 1 .. Len(log) : ~IsWrite(log[i], {"KEY", "CTL0", "CTL1", "CLKEN"})

\* C30: whenever msp432p401r Initialize ends in a fatal assertion (illegal
\* auxiliary or backup source, DCO frequency out of range, invalid reference
\* frequency_select), no clock system register (KEY, CTL0, CTL1, CLKEN) has
\* been modified by that call.
C30_FatalBeforeAnyWrite ==
  (Msp /\ pc = Halted) => NoClockSystemWrite

\* The same for the one check that does come first: the range of the DCO
\* frequency.
DcoRangeFatalBeforeAnyWrite ==
  (Msp /\ pc = Halted /\ ~DcoFrequencyValid(clock_configuration_))
    => NoClockSystemWrite

-----------------------------------------------------------------------------
(* msp432p401r: the ready status of the primary clocks.                    *)

IsControl1Write(entry) == IsWrite(entry, {"CTL1"})

\* Where in the access log the n-th CTL1 write stands (0: there is none).
Control1WriteIndex(n) ==
  LET at == {i \in DOMAIN log :
               /\ IsControl1Write(log[i])
               /\ Cardinality({j \in 1 .. i : IsControl1Write(log[j])}) = n}
  IN  IF at = {} THEN 0 ELSE CHOOSE i \in at : TRUE

\* Which of the CTL1 writes of Initialize program a field of `clock`: the
\* source selects of ACLK, MCLK, HSMCLK/SMCLK and BCLK come first, the
\* dividers of ACLK, MCLK, HSMCLK and SMCLK after them.
Control1WritesFor(clock) ==
  CASE clock = kAuxiliary -> {1, 5}
    [] clock = kMaster -> {2, 6}
    [] clock = kSubsystemMaster -> {3, 7}
    [] clock = kLowSpeedSubsystemMaster -> {3, 8}
    [] clock = kBackup -> {4}

\* The ready bit of `clock` was read as set after every CTL1 write of
\* Initialize that programs the clock.
ReadyReadAfterLastWrite(clock) ==
  \E j \in DOMAIN log :
    /\ log[j] = PollRead("STAT", log[j].val)
    /\ Read(log[j].val, ReadyBit(clock))
    /\ \A n \in Control1WritesFor(clock) :
         Control1WriteIndex(n) # 0 /\ Control1WriteIndex(n) < j

ReturnedOnTarget == Msp /\ ~kPlatformHost /\ pc = "done"

\* C31: on the target (non-host) build, msp432p401r Initialize returns only
\* after the ready status bit of each primary clock it configured (ACLK,
\* MCLK, HSMCLK, SMCLK and BCLK) has been read as set after the last CTL1
\* write affecting that clock.
C31_ReturnsAfterEveryClockReady ==
  ReturnedOnTarget =>
    \A clock \in kAuxiliary .. kBackup : ReadyReadAfterLastWrite(clock)

\* The same for the four clocks that have a divider.
DividedClocksReadyBeforeReturn ==
  ReturnedOnTarget =>
    \A clock \in kAuxiliary .. kLowSpeedSubsystemMaster :
      ReadyReadAfterLastWrite(clock)

-----------------------------------------------------------------------------
(* stm32f10x: queries with an identity outside the Peripherals class.      *)

RateQueried(id) == Stm /\ result.op = "GetClockRate" /\ result.id = id

\* C32: on stm32f10x, GetClockRate returns the 0 Hz sentinel for every
\* identity that is not a member of the enumerated Peripherals set,
\* including unassigned positions inside the AHB, APB1 and APB2 groups
\* (e.g. device_id 3, 5, 32 + 9, 64 + 1).
C32_UnknownIdentityReadsZero ==
  \A id \in (0 .. MaxDeviceId) \ Peripherals :
    RateQueried(id) => result.value = 0

\* What the range checks hand back for an unassigned position of a group:
\* the rate of the bus of the group.
UnassignedPositionReadsBusRate ==
  \A id \in (0 .. MaxDeviceId) \ Peripherals :
    RateQueried(id) =>
      result.value = CASE id < kAPB1 -> ahb_clock_rate_
                       [] id \in kAPB1 .. kAPB2 - 1 -> apb1_clock_rate_
                       [] id \in kAPB2 .. kBeyond - 1 -> apb2_clock_rate_
                       [] OTHER -> 0

-----------------------------------------------------------------------------
(* stm32f10x: power gating from two control flows.                         *)

\* Both control flows have returned from PowerUpPeripheral, called for two
\* identities of the same enable register.
BothPoweredUpSameRegister ==
  /\ Stm
  /\ DOMAIN gating = Flows
  /\ \A f \in Flows : gating[f].pc = "returned" /\ gating[f].up
  /\ gating["main"].id # gating["second"].id
  /\ EnableIndex(gating["main"].id) = EnableIndex(gating["second"].id)

\* The update of `flow` is lost: its call has returned and its peripheral
\* is not powered up.
UpdateLost(flow) ==
  /\ BothPoweredUpSameRegister
  /\ ~IsPeripheralPoweredUp(clock_control, gating[flow].id)

\* The store of a power-gating call writes the value the call read, with
\* its own bit changed, whatever the register holds by then.
StoreWritesValueRead ==
  \A f \in Flows :
    (f \in DOMAIN gating /\ gating[f].pc = "loaded"
       /\ gating'[f].pc = "returned") =>
      clock_control'[EnableRegister(gating[f].id)] =
        IF gating[f].up
        THEN Set(gating[f].value, EnableBitMask(gating[f].id))
        ELSE Clear(gating[f].value, EnableBitMask(gating[f].id))

\* C33: power-gating operations are not safe under interleaving.  The store
\* of PowerUpPeripheral writes back the register value read at the start of
\* the call, so when two control flows interleave the read and write steps
\* of PowerUpPeripheral(a) and PowerUpPeripheral(b) for distinct identities
\* of the same enable register, the update of the flow that stores first
\* can be lost (the state C33_Witness).  An update is lost only when both
\* flows read the register before either wrote it, and never both updates.
C33_InterleavedGatingLosesUpdate ==
  /\ [][StoreWritesValueRead]_vars
  /\ [](\A f \in Flows :
          UpdateLost(f) =>
            /\ gating["main"].value = gating["second"].value
            /\ \E g \in Flows \ {f} :
                 IsPeripheralPoweredUp(clock_control, gating[g].id))

\* Both calls have returned and one of the two identities is not powered
\* up.
C33_Witness ==
  \E f \in Flows : UpdateLost(f)

-----------------------------------------------------------------------------
(* msp432p401r: the rate table against the programmed dividers.            *)

\* The divider code held in the CTL1 divider field of `clock`.
ProgrammedDivider(clock) ==
  Extract(clock_system.CTL1, DividerSelectMask(clock))

\* The configured source of each of the four divided clocks.
ConfiguredSource(clock) ==
  CASE clock = kAuxiliary -> clock_configuration_.auxiliary_clock_source
    [] clock = kMaster -> clock_configuration_.master_clock_source
    [] clock \in {kSubsystemMaster, kLowSpeedSubsystemMaster} ->
         clock_configuration_.subsystem_master_clock_source

RateMatchesProgrammedDivider(clock) ==
  MspGetClockRate(clock) =
    ExpectedMspRate(ConfiguredSource(clock), ProgrammedDivider(clock))

\* C34: on msp432p401r, after any sequence of public operations following a
\* completed Initialize (including calls of the public SetClockDivider),
\* GetClockRate of each of ACLK, MCLK, HSMCLK and SMCLK equals its source
\* frequency divided by 2^(the divider code currently held in that clock's
\* CTL1 divider field).
C34_RateMatchesProgrammedDivider ==
  (Msp /\ pc = "done") =>
    \A clock \in kAuxiliary .. kLowSpeedSubsystemMaster :
      RateMatchesProgrammedDivider(clock)

\* The same as long as SetClockDivider has not been called since
\* Initialize.
RateMatchesDividerOfInitialize ==
  (Msp /\ pc = "done" /\ Control1Writes = InitializeControl1Writes) =>
    \A clock \in kAuxiliary .. kLowSpeedSubsystemMaster :
      RateMatchesProgrammedDivider(clock)

-----------------------------------------------------------------------------
(* stm32f10x: the enable table under the enumerated identities.            *)

GatingOperations ==
  {"IsPeripheralPoweredUp", "PowerUpPeripheral", "PowerDownPeripheral"}

\* The call that has just returned dereferenced entries of `enable` only.
IndexedInsideTable == \A i \in result.index : i < Len(enable)

\* C35: on stm32f10x, IsPeripheralPoweredUp, PowerUpPeripheral and
\* PowerDownPeripheral called with any identity of the enumerated
\* Peripherals set (including kCpu, kSystemTimer and kI2s, whose group index
\* is 3) read and write only one of the three enable registers AHBENR,
\* APB1ENR, APB2ENR; the enable table is never indexed past its last entry.
C35_EnumeratedIdentityStaysInTable ==
  (Stm /\ result.op \in GatingOperations /\ result.id \in Peripherals) =>
    IndexedInsideTable

\* The same for the identities of the AHB, APB1 and APB2 groups.
GroupIdentityStaysInTable ==
  (Stm /\ result.op \in GatingOperations /\ result.id \in GroupIdentities) =>
    /\ IndexedInsideTable
    /\ result.index = {EnableIndex(result.id)}

-----------------------------------------------------------------------------
(* SerialUart::ReadUntil: the count returned against the buffer.           *)

ReadUntilSucceeded ==
  Serial /\ pc = "done" /\ result.op = "ReadUntil" /\ until.success

\* C36: SerialUart::ReadUntil never returns a count larger than
\* buffer.size(): for every byte stream, the value returned on success is at
\* most the size of the caller's buffer, so the view of kBytesRead
\* characters that Zs040::SendCommand builds over its response buffer always
\* lies inside that buffer.
C36_CountWithinBuffer ==
  ReadUntilSucceeded => result.value <= Len(until.buffer)

\* What is returned is the number of bytes read, each stored at its position
\* modulo the size of the buffer; it stays within the buffer when the line
\* carries no more bytes up to the end sequence than the buffer holds.
CountIsBytesRead ==
  ReadUntilSucceeded =>
    /\ result.value = uart_port_.taken
    /\ uart_port_.taken <= Len(until.buffer) =>
         result.value <= Len(until.buffer)
    /\ \A i \in 1 .. Len(until.buffer) :
         i <= uart_port_.taken =>
           \E k \in 1 .. uart_port_.taken :
             /\ (k - 1) % Len(until.buffer) = i - 1
             /\ until.buffer[i] = uart_port_.stream[k]

-----------------------------------------------------------------------------
(* Zs040::Parse on what Zs040::SendCommand hands to it.                    *)

\* SendCommand parses what ReadUntil(receive_buffer, kCrLf) left in the
\* response buffer, the first line of the response up to and including its
\* "\r\n", with check_for_ok = has_ok.
FromSendCommand ==
  /\ Zs040
  /\ parse.cr_lf = kCrLf
  /\ Occurrences(parse.buffer, kCrLf) = {Len(parse.buffer) - Len(kCrLf)}

ParseReturned == Zs040 /\ pc = "done"

\* Every remove_prefix and remove_suffix of the call was given a count of at
\* most the size of the view.
ShrunkWithinView ==
  /\ Parse(parse.buffer, parse.command, parse.cr_lf, parse.check_for_ok).defined
  /\ result.op = "Parse"

\* C37: Zs040::Parse never shrinks its view by more than the view's current
\* size: for every buffer, command and flag combination reachable from
\* Zs040::SendCommand (including has_ok = true, where the buffer holds only
\* the first response line, and a response of only "OK\r\n"), each
\* remove_prefix/remove_suffix count is at most the current size.
C37_ParseShrinksWithinView ==
  (FromSendCommand /\ ParseReturned) => ShrunkWithinView

\* The same for has_ok = false.
ParseWithoutOkShrinksWithinView ==
  (FromSendCommand /\ ParseReturned /\ ~parse.check_for_ok) => ShrunkWithinView

\* With has_ok = true the first response line holds no "OK\r\n" after the
\* value, and the count of a remove_suffix exceeds the size of the view.
ParseWithOkLeavesView ==
  (FromSendCommand /\ ParseReturned /\ parse.check_for_ok) => ~ShrunkWithinView

-----------------------------------------------------------------------------
(* SerialUart::ReadUntil: what it takes from the UART.                     *)

\* The callback has matched the whole end sequence.
EndMatched ==
  /\ Serial
  /\ pc # "idle"
  /\ until.end_position >= until.string_length

\* ReadUntil has returned or thrown.
ReadUntilEnded == Serial /\ pc \in {"done", "thrown"}

\* C38: SerialUart::ReadUntil consumes no byte from the UART beyond the last
\* byte of the matched end sequence: once the end sequence has been matched,
\* no further Read is issued, so the bytes that follow it remain available
\* to the next call.
C38_NothingReadPastMatch ==
  /\ [](EndMatched => EndsWith(BytesRead, until.end))
  /\ [][(EndMatched \/ ReadUntilEnded) =>
          /\ uart_port_'.taken = uart_port_.taken
          /\ uart_port_'.stream = uart_port_.stream
          /\ uart_port_'.delivered >= uart_port_.delivered]_vars
  /\ [](ReadUntilSucceeded =>
          /\ result.value = uart_port_.taken
          /\ EndsWith(BytesRead, until.end))

\* ReadUntil has returned at the end of the match while the UART holds a
\* byte that followed it on the line.
C38_Witness ==
  /\ ReadUntilSucceeded
  /\ until.end # <<>>
  /\ uart_port_.taken < uart_port_.delivered
  /\ uart_port_.taken = ThroughFirst(uart_port_.stream, until.end)

-----------------------------------------------------------------------------
(* msp432p401r: the DCO range written to CTL0.                             *)

\* The range index r with 2^r MHz <= f < 2^(r+1) MHz, 5 up to 48 MHz.
ExpectedRange(f) ==
  CHOOSE r \in 0 .. 5 :
    \/ MHz(2 ^ r) <= f /\ f < MHz(2 ^ (r + 1))
    \/ r = 5 /\ MHz(32) <= f /\ f <= MHz(48)

\* 1.5 MHz x 2^r
ExpectedCentre(r) == kHz(1500) * (2 ^ r)

\* The calibration constants of the range: RSEL5 for r = 5, RSEL04
\* otherwise.
ExpectedConstants(r) ==
  IF r = 5
  THEN [constant |-> device_descriptors.DCOIR_CONSTK_RSEL5,
        calibration |-> device_descriptors.DCOIR_FCAL_RSEL5]
  ELSE [constant |-> device_descriptors.DCOIR_CONSTK_RSEL04,
        calibration |-> device_descriptors.DCOIR_FCAL_RSEL04]

\* Equation 6 on the centre frequency and the constants of range r.
ExpectedTuning(f, r) ==
  LET k == ExpectedConstants(r)
  IN  Truncate(((f - ExpectedCentre(r)) \div 1000)
                 * (1 + k.constant * (768 - k.calibration)),
               (f \div 1000) * k.constant)

Control0Writes == {i \in DOMAIN log : IsWrite(log[i], {"CTL0"})}

\* C39: in msp432p401r ConfigureDcoClock, for every target frequency f in
\* [1 MHz, 48 MHz] the frequency-select code written to CTL0 is the range
\* index r in 0..5 with 2^r MHz <= f < 2^(r+1) MHz (r = 5 for 32 MHz <= f <=
\* 48 MHz), the centre frequency used is 1.5 MHz x 2^r, the RSEL5
\* calibration constants are used exactly when r = 5 and the RSEL04
\* constants otherwise, and the DCO enable bit is set in the same CTL0
\* write.
C39_DcoRangeFollowsTarget ==
  Msp =>
    LET f == clock_configuration_.dco_frequency
    IN  /\ \A i \in Control0Writes :
             /\ MHz(1) <= f /\ f <= MHz(48)
             /\ Extract(log[i].val, Control0Register.kFrequencySelect)
                  = ExpectedRange(f)
             /\ Extract(log[i].val, Control0Register.kTuningSelect)
                  = ExpectedTuning(f, ExpectedRange(f))
                      % (2 ^ Control0Register.kTuningSelect.width)
             /\ Read(log[i].val, Control0Register.kEnable)
        /\ (pc # "idle" /\ clock_configuration_.dco_enabled
              /\ MHz(1) <= f /\ f <= MHz(48)) =>
             Cardinality(Control0Writes) = 1

\* Initialize has returned with the DCO at 32 MHz, the lower limit of the
\* last range: CTL0 holds range 5, the enable bit and the tuning value of
\* the RSEL5 constants about a centre of 48 MHz.
C39_Witness ==
  /\ Msp
  /\ pc = "done"
  /\ clock_configuration_.dco_enabled
  /\ clock_configuration_.dco_frequency = MHz(32)
  /\ Control0Writes # {}
  /\ Extract(clock_system.CTL0, Control0Register.kFrequencySelect) = 5
  /\ Read(clock_system.CTL0, Control0Register.kEnable)
  /\ ExpectedCentre(5) = MHz(48)
  /\ ExpectedTuning(MHz(32), 5) # ExpectedTuning(MHz(32), 4)

====
